---- MODULE Spec2Model ----
(***************************************************************************)
(* Model of parquet_tools: the schema model (common/schema.py), the type   *)
(* catalog (common/typeinfo.py), the error classes (common/errhandlers.py),*)
(* the file lists (common/iofiles.py) and the text-row null encoder        *)
(* (csv2pq/csv2csv.py) with the two conversion drivers around them         *)
(* (csv2pq/csv2pq.py, pq2csv/pq2csv.py).                                   *)
(*                                                                         *)
(* Text is modelled as a sequence of one-character strings, so that        *)
(* lower(), slicing, find(), split(), int() and str() are computed as the  *)
(* Python code computes them.                                              *)
(***************************************************************************)
EXTENDS Integers, Sequences, FiniteSets, TLC

(***************************************************************************)
(* Bounds of the model.                                                    *)
(***************************************************************************)
\* longest schema file, in lines, of the schema specification
MaxLines == 2
\* largest decimal precision written in a schema file
MaxPrec == 11
\* largest decimal scale written in a schema file
MaxScale == 2
\* most columns of a schema in the row specification
MaxRowCols == 2
\* most rows read from one csv file
MaxRows == 2
\* longest schema file, in lines, of the verification specification
MaxVerLines == 2
\* most columns of a parquet file next to its index
MaxVerCols == 2
\* longest schema file, in lines, of the normalization specification
MaxNormLines == 2
\* most columns of a normalized parquet file next to its index
MaxNormCols == 1
\* most input files of a batch
MaxBatch == 3
MaxTmplFiles == 2
MaxLoop == 2

(***************************************************************************)
(* Python string primitives.                                               *)
(***************************************************************************)
Uppers == <<"A","B","C","D","E","F","G","H","I","J","K","L","M",
            "N","O","P","Q","R","S","T","U","V","W","X","Y","Z">>
Lowers == <<"a","b","c","d","e","f","g","h","i","j","k","l","m",
            "n","o","p","q","r","s","t","u","v","w","x","y","z">>
Digits == <<"0","1","2","3","4","5","6","7","8","9">>

Range(s) == {s[i] : i \in 1..Len(s)}

Min(a, b) == IF a < b THEN a ELSE b

\* str.lower() on one character
LowerChar(c) ==
    IF \E i \in 1..26 : Uppers[i] = c
    THEN Lowers[CHOOSE i \in 1..26 : Uppers[i] = c]
    ELSE c

\* str.upper() on one character
UpperChar(c) ==
    IF \E i \in 1..26 : Lowers[i] = c
    THEN Uppers[CHOOSE i \in 1..26 : Lowers[i] = c]
    ELSE c

PyLower(s) == [i \in 1..Len(s) |-> LowerChar(s[i])]
PyUpper(s) == [i \in 1..Len(s) |-> UpperChar(s[i])]

\* s[a:b] with 0 <= a <= b
Slice(s, a, b) == SubSeq(s, a + 1, Min(b, Len(s)))

\* s[a:]
SliceFrom(s, a) == SubSeq(s, a + 1, Len(s))

\* s.find(c) for a one-character c: first 0-based index, or -1
Find(s, c) ==
    IF \E i \in 1..Len(s) : s[i] = c
    THEN (CHOOSE i \in 1..Len(s) : s[i] = c /\ \A j \in 1..(i-1) : s[j] # c) - 1
    ELSE -1

\* sub in s, for strings
Contains(s, sub) ==
    \E i \in 0..(Len(s) - Len(sub)) : SubSeq(s, i + 1, i + Len(sub)) = sub

\* s.split(c) for a one-character c; SplitAt is given n = s.find(c)
RECURSIVE Split(_, _)
SplitAt(s, c, n) ==
    IF n < 0 THEN <<s>>
    ELSE <<SubSeq(s, 1, n)>> \o Split(SliceFrom(s, n + 1), c)

Split(s, c) == SplitAt(s, c, Find(s, c))

\* c.join(list)
RECURSIVE Join(_, _)
Join(list, c) ==
    IF Len(list) = 0 THEN <<>>
    ELSE IF Len(list) = 1 THEN list[1]
    ELSE list[1] \o c \o Join(Tail(list), c)

IsDigit(c) == \E i \in 1..10 : Digits[i] = c
DigitVal(c) == (CHOOSE i \in 1..10 : Digits[i] = c) - 1

RECURSIVE DigitsVal(_)
DigitsVal(s) ==
    IF Len(s) = 0 THEN 0
    ELSE 10 * DigitsVal(SubSeq(s, 1, Len(s) - 1)) + DigitVal(s[Len(s)])

AllDigits(s) == Len(s) > 0 /\ \A i \in 1..Len(s) : IsDigit(s[i])

\* int() of the sign and the text after it: ok is FALSE for the ValueError
SignedInt(sign, d) ==
    IF AllDigits(d)
    THEN [ok |-> TRUE, val |-> (IF sign = "-" THEN -1 ELSE 1) * DigitsVal(d)]
    ELSE [ok |-> FALSE, val |-> 0]

\* int(s): an optional sign and decimal digits; anything else raises
\* ValueError.  Blanks and digit-group underscores, which int() also
\* accepts, do not occur in the texts of this model.
PyInt(s) ==
    IF Len(s) > 0 /\ s[1] \in {"-", "+"}
    THEN SignedInt(s[1], Tail(s))
    ELSE SignedInt("+", s)

RECURSIVE NatStr(_)
NatStr(n) ==
    IF n < 10 THEN <<Digits[n + 1]>>
    ELSE NatStr(n \div 10) \o <<Digits[(n % 10) + 1]>>

\* str(n) for an integer n
PyStr(n) == IF n < 0 THEN <<"-">> \o NatStr(0 - n) ELSE NatStr(n)

(***************************************************************************)
(* Text constants.                                                         *)
(***************************************************************************)
T_int == <<"i","n","t">>
T_short == <<"s","h","o","r","t">>
T_long == <<"l","o","n","g">>
T_bigint == <<"b","i","g","i","n","t">>
T_smallint == <<"s","m","a","l","l","i","n","t">>
T_tinyint == <<"t","i","n","y","i","n","t">>
T_int8 == <<"i","n","t","8">>
T_int16 == <<"i","n","t","1","6">>
T_int32 == <<"i","n","t","3","2">>
T_int64 == <<"i","n","t","6","4">>
T_float == <<"f","l","o","a","t">>
T_double == <<"d","o","u","b","l","e">>
T_float32 == <<"f","l","o","a","t","3","2">>
T_float64 == <<"f","l","o","a","t","6","4">>
T_char == <<"c","h","a","r">>
T_varchar == <<"v","a","r","c","h","a","r">>
T_bool == <<"b","o","o","l">>
T_datetime == <<"d","a","t","e","t","i","m","e">>
T_decimal == <<"d","e","c","i","m","a","l","(">>
T_NOT == <<"N","O","T">>
T_NULL == <<"N","U","L","L">>
T_NOTNULL == <<"N","O","T"," ","N","U","L","L">>
T_true == <<"t","r","u","e">>
T_false == <<"f","a","l","s","e">>
T_auto == <<"a","u","t","o">>

T_ISNULL == <<"_","I","S","N","U","L","L">>

(***************************************************************************)
(* common/typeinfo.py: the type catalog.                                   *)
(***************************************************************************)
\* TypeInfo.table: schema type name -> numpy type
table ==
    << <<T_int, "int32">>,     <<T_short, "int16">>,    <<T_long, "int64">>,
       <<T_bigint, "int64">>,  <<T_smallint, "int16">>,
       <<T_int8, "int8">>,     <<T_int32, "int32">>,    <<T_int64, "int64">>,
       <<T_float, "float32">>, <<T_double, "float64">>,
       <<T_float32, "float32">>, <<T_float64, "float64">>,
       <<T_char, "bytes_">>,   <<T_bool, "bool_">> >>

\* xtype in TypeInfo.table (FALSE is the KeyError of TypeInfo.table[xtype])
TableHas(xtype) == \E i \in 1..Len(table) : table[i][1] = xtype

\* TypeInfo.table[xtype]
TableGet(xtype) == table[CHOOSE i \in 1..Len(table) : table[i][1] = xtype][2]

\* the integral keys without int
isIntMut == {T_short, T_long, T_bigint, T_smallint, T_int8, T_int32, T_int64}

\* TypeInfo.isInt: the keys flagged as integral
isInt == {T_int, T_short, T_long, T_bigint, T_smallint, T_int8, T_int32, T_int64}

(***************************************************************************)
(* common/errhandlers.py: the two exception classes.  An exception is a    *)
(* record: its class, the message number, the arguments it was built from  *)
(* and `shown', the positions of the arguments that the message text       *)
(* contains.                                                               *)
(***************************************************************************)
NoErr == [cls |-> "none", msgnum |-> 0, args |-> <<>>, shown |-> <<>>]

\* ParmError.__init__: format 1 joins every token; 2..6 use the first one
\* to three tokens; any other number gives 'Message <n> not found'
ParmError(msgnum, args) ==
    [cls |-> "ParmError", msgnum |-> msgnum, args |-> args,
     shown |-> [i \in 1..Min(Len(args),
                             IF msgnum = 1 THEN Len(args)
                             ELSE IF msgnum = 2 THEN 1
                             ELSE IF msgnum \in {3, 4, 5} THEN 2
                             ELSE IF msgnum = 6 THEN 3
                             ELSE 0) |-> i]]

\* FatalError.__init__: the message joins every context token and names
\* the wrapped exception
FatalError(ex, args) ==
    [cls |-> "FatalError", msgnum |-> 0, args |-> Append(args, ex),
     shown |-> [i \in 1..(Len(args) + 1) |-> i]]

(***************************************************************************)
(* State.                                                                  *)
(***************************************************************************)
VARIABLES
    pc,       \* position of the run: "start", "config", "reading", ...
    schfile,  \* the schema file handed to get_schema: a list of text lines
    doAuto,   \* the do_auto argument of get_schema (--auto)
    Schema,   \* the class attributes of Schema
    err,      \* the exception that reached main, NoErr if none
    errLine,  \* the schema line get_schema was at when it raised, else 0
    Csv2Csv,  \* the class attributes of Csv2Csv
    csv,      \* the Csv2Csv object of the input file: nRow, and nRead, the
              \* number of rows its reader has returned so far
    row,      \* the row the csv reader returned last
    rec,      \* the record read() returned last
    readErr,  \* the exception read() raised, NoErr if none
    df,       \* the data frame: its row that came from `rec'
    dfBad,    \* pandas could not convert some record read so far
    castWraps,\* the pandas build casts an integer too large for its column
              \* silently (TRUE) or refuses it (FALSE)
    ver,      \* the call of ver_dataframe: its arguments df (the columns
              \* of the frame, each a name and a dtype) and blab, what it
              \* returned, what it said and how many columns it examined
    norm,     \* the call of normalize by pq2csv: whether setfp was called,
              \* the row of the frame before and after the call and the
              \* log of the steps normalize took
    io,       \* the class attributes of IOFiles
    fs,       \* the file system: the paths of the files that exist
    run       \* the run of main: where it is, the program and its command
              \* line, the pair being converted, the exit status, and
              \* what get_filepair removed, skipped and returned so far

schemaVars == <<schfile, doAuto, Schema, errLine>>
rowVars == <<Csv2Csv, csv, row, rec, readErr, df, dfBad, castWraps>>
auxVars == <<ver, norm, io, fs, run>>
vars == <<pc, schfile, doAuto, Schema, err, errLine,
          Csv2Csv, csv, row, rec, readErr, df, dfBad, castWraps, ver, norm,
          io, fs, run>>

(***************************************************************************)
(* common/schema.py: the schema model.                                     *)
(***************************************************************************)
\* Schema._nilSuffx
nilSuffx == T_ISNULL

\* line.split(): the whitespace-separated tokens of a line; TokAt is
\* given n = line.find(' ') of a line that starts with a token
RECURSIVE SplitWS(_)
TokAt(line, n) ==
    IF n < 0 THEN <<line>>
    ELSE <<SubSeq(line, 1, n)>> \o SplitWS(SliceFrom(line, n))

SplitWS(line) ==
    IF Len(line) = 0 THEN <<>>
    ELSE IF line[1] = " " THEN SplitWS(Tail(line))
    ELSE TokAt(line, Find(line, " "))

\* str(np.dtype(nptype))
DtypeStr(nptype) ==
    IF nptype = "bytes_" THEN "|S0"
    ELSE IF nptype = "bool_" THEN "bool"
    ELSE nptype

\* Schema._add_col on the attributes s
AddCol(s, cname) ==
    [s EXCEPT !.colNames = Append(@, cname),
              !.cNameMax = IF Len(cname) > @ THEN Len(cname) ELSE @]

\* _can_be_null without upper(): the phrase is matched as written
CanBeNullMut(cspec) == ~Contains(Join(cspec, <<" ">>), T_NOTNULL)

\* Schema._can_be_null
CanBeNull(cspec) == ~Contains(PyUpper(Join(cspec, <<" ">>)), T_NOTNULL)

\* the integer type _get_dectype picks for decimal(p) and decimal(p,0)
DecIntType(pval1) ==
    IF pval1 < 3 THEN T_int8
    ELSE IF pval1 < 5 THEN T_int16
    ELSE IF pval1 < 10 THEN T_int32
    ELSE T_int64

\* the float type picked with the limit of float32 one too high
DecFloatTypeMut(pval1) == IF pval1 < 8 THEN T_float32 ELSE T_float64

\* the float type _get_dectype picks for decimal(p,s), s > 0
DecFloatType(pval1) == IF pval1 < 7 THEN T_float32 ELSE T_float64

\* a check for a valid scale value that lets every scale pass
BadScaleMut(pval2) == FALSE

\* the check of _get_dectype for a valid scale value
BadScale(pval2) == pval2 < 0

\* the format _get_dectype registers for the scale pval2
FixedFmt(pval2) == <<".">> \o PyStr(pval2) \o <<"f">>

\* the result of _get_dectype when the type cannot be determined: the
\* type name '' and nothing to append to Schema._colFPFmt
Unresolved == [xtype |-> <<>>, reg |-> <<>>]

\* _get_dectype from the converted precision and scale on
DecFromVals(pval1, pval2, cname) ==
    IF ~pval1.ok THEN Unresolved
    ELSE IF pval1.val < 0 THEN Unresolved
    ELSE IF ~pval2.ok THEN Unresolved
    ELSE IF BadScale(pval2.val) THEN Unresolved
    ELSE IF pval2.val = 0
         THEN [xtype |-> DecIntType(pval1.val), reg |-> <<>>]
    ELSE [xtype |-> DecFloatType(pval1.val),
          reg |-> << <<cname, FixedFmt(pval2.val)>> >>]

\* _get_dectype from the split arguments on
DecFromArgs(pspec, cname) ==
    DecFromVals(PyInt(pspec[1]),
                IF Len(pspec) = 1 THEN [ok |-> TRUE, val |-> 0]
                ELSE PyInt(pspec[2]),
                cname)

\* _get_dectype from n = dargs.find(')') on
DecFromParen(dargs, n, cname) ==
    IF n < 1 THEN Unresolved
    ELSE DecFromArgs(Split(Slice(dargs, 0, n), ","), cname)

\* Schema._get_dectype: xtype is the type name returned ('' if it could
\* not be determined), reg the entries it appends to Schema._colFPFmt
GetDectype(dargs, cname) == DecFromParen(dargs, Find(dargs, ")"), cname)

\* the column number, taken one too high
ColNumMut(s) == Len(s.colNames)

\* the column number _get_type records in colnulls
ColNum(s) == Len(s.colNames) - 1

\* the first branch of _get_type: does the type name count as character?
IsCharType(xtype) == Slice(xtype, 0, 4) = T_char \/ Slice(xtype, 0, 7) = T_varchar

\* the end of _get_type: should null values be preprocessed for the column?
NoteNull(s, cname, cnull, xtype) ==
    IF cnull /\ xtype \in isInt
    THEN [s EXCEPT !.colnulls = Append(@, <<ColNum(s), cname \o nilSuffx>>),
                   !.colTypes = ((cname \o nilSuffx) :> "bool_") @@ @]
    ELSE s

\* the second half of _get_type: the type name xtype is looked up and
\* recorded; s.err is the exception raised, if any
RecordType(s, cname, ctype, cnull, xtype) ==
    IF ~TableHas(xtype)
    THEN [s EXCEPT !.err = ParmError(4, <<cname, ctype>>)]
    ELSE NoteNull([s EXCEPT
                     !.colTypes = (cname :> TableGet(xtype)) @@ @,
                     !.colSpecs = Append(@, <<cname, ctype,
                                              DtypeStr(TableGet(xtype))>>)],
                  cname, cnull, xtype)

\* _get_type records the columns of float and double type
NoteFloat(s, cname, nptype) ==
    IF nptype = "float32" THEN [s EXCEPT !.colFP32 = Append(@, cname)]
    ELSE IF nptype = "float64" THEN [s EXCEPT !.colFP64 = Append(@, cname)]
    ELSE s

\* _get_type for a decimal type, given the result of _get_dectype
RecordDec(s, cname, ctype, cnull, dec) ==
    RecordType([s EXCEPT !.colFPFmt = @ \o dec.reg], cname, ctype, cnull,
               dec.xtype)

\* _get_type from the lower-cased type name on
TypeFromLower(s, cname, ctype, cnull, xtype) ==
    IF IsCharType(xtype) THEN RecordType(s, cname, ctype, cnull, T_char)
    ELSE IF Slice(xtype, 0, 8) = T_decimal
         THEN RecordDec(s, cname, ctype, cnull,
                        GetDectype(SliceFrom(xtype, 8), cname))
    ELSE IF ~TableHas(xtype)
         THEN [s EXCEPT !.err = ParmError(4, <<cname, ctype>>)]
    ELSE RecordType(NoteFloat(s, cname, TableGet(xtype)), cname, ctype,
                    cnull, xtype)

\* Schema._get_type on the attributes s; s.colnulls is the colnulls list
\* of the caller and s.err the exception raised, if any
GetType(s, cname, ctype, cnull) ==
    TypeFromLower(s, cname, ctype, cnull, PyLower(ctype))

\* get_schema on a line with a type in non-auto mode
TypedLine(s, toks, nullok) ==
    GetType(IF nullok THEN s
            ELSE [s EXCEPT !.colNotNull = Append(@, toks[1])],
            toks[1], toks[2], nullok)

\* the body of the loop of get_schema for the tokens of record k
ScanLine(s, toks, k, do_auto) ==
    IF Len(toks) = 0 THEN s
    ELSE IF ~do_auto /\ Len(toks) > 1
         THEN TypedLine([AddCol(s, toks[1]) EXCEPT !.line = k], toks,
                        CanBeNull(SliceFrom(toks, 2)))
    ELSE [AddCol(s, toks[1]) EXCEPT
            !.line = k,
            !.colSpecs = Append(@, <<toks[1], T_auto, "auto">>)]

\* the loop of get_schema over the records from number k on
RECURSIVE ScanRecs(_, _, _, _)
ScanRecs(s, recs, k, do_auto) ==
    IF k > Len(recs) \/ s.err.cls # "none" THEN s
    ELSE ScanRecs(ScanLine(s, SplitWS(recs[k]), k, do_auto),
                  recs, k + 1, do_auto)

\* the augmentation loop of get_schema over colnulls
RECURSIVE Augment(_, _)
Augment(s, colnulls) ==
    IF Len(colnulls) = 0 THEN s
    ELSE Augment(AddCol([s EXCEPT !.colNVChk = Append(@, colnulls[1][1])],
                        colnulls[1][2]),
                 Tail(colnulls))

\* the locals of get_schema next to the class attributes
Locals == [colnulls |-> <<>>, err |-> NoErr, line |-> 0]

\* the class attributes within a record of attributes and locals
Attrs(s) == [f \in DOMAIN Schema |-> s[f]]

\* the end of get_schema: the original number of columns is recorded and
\* the schema augmented
FinishSchema(s) ==
    IF s.err.cls # "none" THEN s
    ELSE Augment([s EXCEPT !.colOrigs = Len(s.colNames),
                           !.cNameMaw = s.cNameMax],
                 s.colnulls)

\* Schema.get_schema from the opened file on
ReadSchema(s0, recs, do_auto) == FinishSchema(ScanRecs(s0, recs, 1, do_auto))

\* the state get_schema leaves, s being its attributes and locals at the
\* end
SchemaOutcome(f, a, s) ==
    /\ schfile' = f
    /\ doAuto' = a
    /\ Schema' = Attrs(s)
    /\ err' = s.err
    /\ errLine' = IF s.err.cls # "none" THEN s.line ELSE 0
    /\ pc' = IF s.err.cls # "none" THEN "exit99" ELSE "config"

\* Schema.get_schema(schfile, do_auto), of a run whose schema file is one
\* of `files' and whose --auto option is one of `autos'
GetSchema(files, autos) ==
    /\ pc = "start"
    /\ UNCHANGED <<rowVars, auxVars>>
    /\ \/ \* the schema file does not exist
          /\ schfile' = <<>>
          /\ doAuto' \in autos
          /\ Schema' = [Schema EXCEPT !.colNames = <<>>]
          /\ err' = ParmError(6, <<"Schema file", "schfile", "not found">>)
          /\ errLine' = 0
          /\ pc' = "exit99"
       \/ \* open() fails
          /\ schfile' = <<>>
          /\ doAuto' \in autos
          /\ Schema' = [Schema EXCEPT !.colNames = <<>>]
          /\ err' = FatalError("OSError",
                               <<"Unable to open schema file", "schfile">>)
          /\ errLine' = 0
          /\ pc' = "exit99"
       \/ \E f \in files, a \in autos :
            SchemaOutcome(f, a,
                ReadSchema([Schema EXCEPT !.colNames = <<>>] @@ Locals, f, a))

\* Schema.get_schema(schfile, do_auto) called once more, on the schema
\* file and with the do_auto of the first call: it works on the class
\* attributes the first call has left
GetSchemaAgain ==
    /\ pc = "config"
    /\ UNCHANGED <<schfile, doAuto, rowVars, auxVars>>
    /\ \/ \* the schema file does not exist any more
          /\ Schema' = [Schema EXCEPT !.colNames = <<>>]
          /\ err' = ParmError(6, <<"Schema file", "schfile", "not found">>)
          /\ errLine' = 0
          /\ pc' = "exit99"
       \/ \* open() fails
          /\ Schema' = [Schema EXCEPT !.colNames = <<>>]
          /\ err' = FatalError("OSError",
                               <<"Unable to open schema file", "schfile">>)
          /\ errLine' = 0
          /\ pc' = "exit99"
       \/ /\ Schema' = Attrs(ReadSchema([Schema EXCEPT !.colNames = <<>>]
                                            @@ Locals, schfile, doAuto))
          /\ err' = ReadSchema([Schema EXCEPT !.colNames = <<>>] @@ Locals,
                               schfile, doAuto).err
          /\ errLine' = IF err'.cls # "none"
                        THEN ReadSchema([Schema EXCEPT !.colNames = <<>>]
                                            @@ Locals, schfile, doAuto).line
                        ELSE 0
          /\ pc' = IF err'.cls # "none" THEN "exit99" ELSE "again"

\* the class attributes as the class statement leaves them
InitSchema ==
    [colNames |-> <<>>, colNVChk |-> <<>>, colTypes |-> <<>>, colOrigs |-> 0,
     cNameMaw |-> 0, cNameMax |-> 0, colFPFmt |-> <<>>, colFP32 |-> <<>>,
     colFP64 |-> <<>>, colNotNull |-> <<>>, colSpecs |-> <<>>,
     f32fmt |-> [given |-> FALSE, text |-> <<>>],
     f64fmt |-> [given |-> FALSE, text |-> <<>>]]

(***************************************************************************)
(* csv2pq/csv2csv.py: the text-row null encoder.                           *)
(***************************************************************************)
\* the class attributes of Csv2Csv as the class statement leaves them
InitCsv2Csv ==
    [cmtC |-> <<"#">>, nanV |-> <<"0">>, nCol |-> 0, nilC |-> <<>>,
     nilV |-> <<"\\", "N">>, sepC |-> <<",">>]

\* Csv2Csv.setup(cmdinfo, schema), for the options --null nil, --intnan nan
\* and --sep sep
SetupCsv2Csv(schema, nil, nan, sep) ==
    [cmtC |-> <<"#">>, nanV |-> PyStr(nan), nCol |-> schema.colOrigs,
     nilC |-> schema.colNVChk, nilV |-> nil, sepC |-> sep]

\* the two flags of read() taken for each other
NullFlagMut(isnil) == IF isnil THEN T_false ELSE T_true

\* what read() appends for a field that is, or is not, the null marker
NullFlag(isnil) == IF isnil THEN T_true ELSE T_false

\* the body of the loop of read() for column number i of the row r
NullStep(cls, r, i) ==
    IF r[i + 1] = cls.nilV
    THEN [Append(r, NullFlag(TRUE)) EXCEPT ![i + 1] = cls.nanV]
    ELSE Append(r, NullFlag(FALSE))

\* the loop of read() over the columns nilC of the row r
RECURSIVE NullLoop(_, _, _)
NullLoop(cls, r, nilC) ==
    IF Len(nilC) = 0 THEN r
    ELSE NullLoop(cls, NullStep(cls, r, nilC[1]), Tail(nilC))

\* the message read() raises for a row of the wrong length
CountError(self, r, cls) ==
    ParmError(7, <<"In file record", self.nRow, "has", Len(r),
                   "columns but schema defines only", cls.nCol, "columns">>)

\* Csv2Csv.read from the row r the csv reader returned: the exception
\* raised, or the record returned
ReadRow(cls, self, r) ==
    IF cls.nCol > 0 /\ Len(r) # cls.nCol
    THEN [err |-> CountError(self, r, cls), rec |-> <<>>]
    ELSE [err |-> NoErr,
          rec |-> Join(NullLoop(cls, r, cls.nilC), cls.sepC) \o <<"\n">>]

(***************************************************************************)
(* csv2pq/csv2pq.py: convert, as far as pandas turns a record into a row   *)
(* of the data frame.                                                      *)
(***************************************************************************)
NaN == [t |-> "nan"]
Bad == [t |-> "bad"]

\* the values a numpy integer type holds
InRange(nptype, n) ==
    IF nptype = "int8" THEN n >= -128 /\ n <= 127
    ELSE IF nptype = "int16" THEN n >= -32768 /\ n <= 32767
    ELSE TRUE

\* the cast of the integer n to a numpy integer type too narrow for it
WrapTo(nptype, n) ==
    IF nptype = "int8" THEN ((n + 128) % 256) - 128
    ELSE IF nptype = "int16" THEN ((n + 32768) % 65536) - 32768
    ELSE n

\* read_csv on a field of an integer column, pi being int() of the field
ParseIntField(isna, nptype, pi, wraps) ==
    IF isna \/ ~pi.ok THEN Bad
    ELSE IF InRange(nptype, pi.val) THEN [t |-> "int", v |-> pi.val]
    ELSE IF wraps THEN [t |-> "int", v |-> WrapTo(nptype, pi.val)]
    ELSE Bad

\* read_csv on a field of a boolean column, given in lower case
ParseBoolField(f) ==
    IF f = T_true THEN [t |-> "bool", v |-> TRUE]
    ELSE IF f = T_false THEN [t |-> "bool", v |-> FALSE]
    ELSE Bad

\* read_csv on one field of a column of type nptype with na_values = nil:
\* the value, NaN, or Bad when the field cannot be converted
ParseField(f, nptype, nil, wraps) ==
    IF nptype \in {"int8", "int16", "int32", "int64"}
    THEN ParseIntField(f = nil, nptype, PyInt(f), wraps)
    ELSE IF nptype = "bool_" THEN ParseBoolField(PyLower(f))
    ELSE IF f = nil THEN NaN
    ELSE [t |-> "str", v |-> f]

\* the dtype read_csv uses for the column named cname
DtypeOf(schema, cname) ==
    IF cname \in DOMAIN schema.colTypes THEN schema.colTypes[cname]
    ELSE "object"

\* read_csv(names=colNames, dtype=colTypes, na_values=nil) on the fields
\* of one record: the row of the data frame
ParseFields(schema, fields, nil, wraps) ==
    IF Len(fields) # Len(schema.colNames)
    THEN [i \in 1..Len(schema.colNames) |-> Bad]
    ELSE [i \in 1..Len(fields) |->
            ParseField(fields[i], DtypeOf(schema, schema.colNames[i]), nil,
                       wraps)]

\* read_csv on one record r, split at the separator sep
ParseRec(schema, r, sep, nil, wraps) ==
    ParseFields(schema, Split(SubSeq(r, 1, Len(r) - 1), sep[1]), nil, wraps)

HasBad(dfrow) == \E i \in 1..Len(dfrow) : dfrow[i].t = "bad"

(***************************************************************************)
(* common/schema.py: _format.  A floating value is the record of its sign, *)
(* its integer part and the digits of its decimal expansion.               *)
(***************************************************************************)
\* x == 0.0
IsZero(x) == x.int = 0 /\ \A i \in 1..Len(x.frac) : x.frac[i] = 0

RECURSIVE Pow10(_)
Pow10(n) == IF n = 0 THEN 1 ELSE 10 * Pow10(n - 1)

\* the number a sequence of digits writes
RECURSIVE DigitsNum(_)
DigitsNum(ds) ==
    IF Len(ds) = 0 THEN 0
    ELSE 10 * DigitsNum(SubSeq(ds, 1, Len(ds) - 1)) + ds[Len(ds)]

\* the first s digits after the point
FirstDigits(frac, s) == [i \in 1..s |-> IF i <= Len(frac) THEN frac[i] ELSE 0]

\* is the value rounded away from zero?  rest is the digits that are cut
\* off, n the number before them: to nearest, ties to even
RoundsUp(n, rest) ==
    /\ Len(rest) > 0
    /\ \/ rest[1] > 5
       \/ /\ rest[1] = 5
          /\ \/ \E i \in 2..Len(rest) : rest[i] # 0
             \/ n % 2 = 1

\* the number n with the cut-off digits rest rounded into it
RoundInto(n, rest) == IF RoundsUp(n, rest) THEN n + 1 ELSE n

\* the digits of n, at least s of them
RECURSIVE ZeroFill(_, _)
ZeroFill(t, s) == IF Len(t) >= s THEN t ELSE ZeroFill(<<"0">> \o t, s)

\* the text of n / 10^s with s digits after the point
FixedText(neg, n, s) ==
    (IF neg THEN <<"-">> ELSE <<>>)
    \o NatStr(n \div Pow10(s))
    \o (IF s > 0 THEN <<".">> \o ZeroFill(NatStr(n % Pow10(s)), s) ELSE <<>>)

\* format(x, '.<s>f')
PyFormatF(x, s) ==
    FixedText(x.neg,
              RoundInto(x.int * Pow10(s) + DigitsNum(FirstDigits(x.frac, s)),
                        SliceFrom(x.frac, s)),
              s)

\* t.rstrip('0')
RECURSIVE RStripZeros(_)
RStripZeros(t) ==
    IF Len(t) > 0 /\ t[Len(t)] = "0" THEN RStripZeros(SubSeq(t, 1, Len(t) - 1))
    ELSE t

\* _format without its last statement: a bare point stays bare
KeepDigitMut(result) == result

\* the end of _format: a digit is put back after a bare point
KeepDigit(result) ==
    IF Len(result) > 0 /\ result[Len(result)] = "." THEN result \o <<"0">>
    ELSE result

\* the scale s of the format '.<s>f'
FmtScale(fmt) == PyInt(SubSeq(fmt, 2, Len(fmt) - 1)).val

\* what map() gets when _format raises: format() of a text with a
\* floating format is a ValueError
FormatRaises == [t |-> "raise", v |-> "ValueError"]

\* Schema._format(x) with Schema._colFmtfp = fmt
Format(x, fmt) ==
    IF x.t = "float"
    THEN IF IsZero(x) THEN [t |-> "str", v |-> <<"0", ".", "0">>]
         ELSE [t |-> "str",
               v |-> KeepDigit(RStripZeros(PyFormatF(x, FmtScale(fmt))))]
    ELSE FormatRaises

\* map(Schema._format, na_action='ignore') on one value
MapFormat(x, fmt) == IF x.t = "nan" THEN x ELSE Format(x, fmt)

(***************************************************************************)
(* common/schema.py: normalize, the reversion of the null values.          *)
(***************************************************************************)
\* df[cname]: the position of the column named cname in a frame whose
\* columns are named names
ColIdx(names, cname) ==
    CHOOSE i \in 1..Len(names) :
        /\ names[i] = cname
        /\ \A j \in 1..(i - 1) : names[j] # cname

\* str(x) of a floating value written in its shortest form
FloatStr(x) ==
    (IF x.neg THEN <<"-">> ELSE <<>>) \o NatStr(x.int) \o <<".">>
    \o (IF Len(x.frac) = 0 THEN <<"0">>
        ELSE [i \in 1..Len(x.frac) |-> Digits[x.frac[i] + 1]])

\* df[cname].apply(str) on one value
ApplyStr(x) ==
    IF x.t = "int" THEN [t |-> "str", v |-> PyStr(x.v)]
    ELSE IF x.t = "float" THEN [t |-> "str", v |-> FloatStr(x)]
    ELSE x

\* the companion flag read the wrong way round
FlagSetMut(x) == x.t = "bool" /\ ~x.v

\* is the companion flag set (df[cisnil] == True)?
FlagSet(x) == x.t = "bool" /\ x.v

\* the body of the loop of _revert2null for the column at position c,
\* whose companion is at position cisnil
RevertCol(dfrow, c, cisnil, nilval) ==
    IF FlagSet(dfrow[cisnil])
    THEN [dfrow EXCEPT ![c] = [t |-> "str", v |-> nilval]]
    ELSE [dfrow EXCEPT ![c] = ApplyStr(@)]

\* the body of the loop of _revert2null for the column named cname
RevertNamed(names, dfrow, cname, nilval) ==
    RevertCol(dfrow, ColIdx(names, cname),
              ColIdx(names, cname \o nilSuffx), nilval)

\* Schema._revert2null on the row dfrow of a frame with the columns names
RECURSIVE Revert2Null(_, _, _, _, _)
Revert2Null(schema, names, dfrow, nvchk, nilval) ==
    IF Len(nvchk) = 0 THEN dfrow
    ELSE Revert2Null(schema, names,
                     RevertNamed(names, dfrow,
                                 schema.colNames[nvchk[1] + 1], nilval),
                     Tail(nvchk), nilval)

\* the first step of Schema.normalize(df, nilval): the null values are
\* reverted
NormalizeRow(schema, names, dfrow, nilval) ==
    IF Len(schema.colNVChk) > 0
    THEN Revert2Null(schema, names, dfrow, schema.colNVChk, nilval)
    ELSE dfrow

\* the columns the first step of normalize reverts, as a log of steps
RevertLog(schema) ==
    [j \in 1..Len(schema.colNVChk) |->
        <<"revert", schema.colNames[schema.colNVChk[j] + 1]>>]

\* some map() of normalize raised
HasRaise(dfrow) == \E i \in 1..Len(dfrow) : dfrow[i].t = "raise"

\* df[cname] = df[cname].map(Schema._format, na_action='ignore'); d is the
\* row and the log of the steps taken so far.  Nothing is done once a
\* map() has raised: the exception has left normalize
RenderCol(names, d, cname, fmt, step) ==
    IF HasRaise(d.row) THEN d
    ELSE [row |-> [d.row EXCEPT ![ColIdx(names, cname)] = MapFormat(@, fmt)],
          log |-> Append(d.log, <<step, cname>>)]

\* the second step of normalize: the loop over Schema._colFPFmt
RECURSIVE RenderFixed(_, _, _)
RenderFixed(names, d, fpfmt) ==
    IF Len(fpfmt) = 0 THEN d
    ELSE RenderFixed(names,
                     RenderCol(names, d, fpfmt[1][1], fpfmt[1][2], "fixed"),
                     Tail(fpfmt))

\* the loop of normalize over the columns of one width
RECURSIVE RenderWidth(_, _, _, _, _)
RenderWidth(names, d, cols, fmt, step) ==
    IF Len(cols) = 0 THEN d
    ELSE RenderWidth(names, RenderCol(names, d, cols[1], fmt, step),
                     Tail(cols), fmt, step)

\* no format: the None of an option that was not given
NoFmt == [given |-> FALSE, text |-> <<>>]

\* the third and the fourth step of normalize: the run-wide format of one
\* width
RenderGlobal(names, d, fmt, cols, step) ==
    IF fmt.given /\ Len(cols) > 0
    THEN RenderWidth(names, d, cols, fmt.text, step)
    ELSE d

\* Schema.normalize(df, nilval) on the row dfrow of a frame with the
\* columns names: the row it leaves and the log of its steps
NormalizeDf(schema, names, dfrow, nilval) ==
    RenderGlobal(names,
        RenderGlobal(names,
            RenderFixed(names,
                [row |-> NormalizeRow(schema, names, dfrow, nilval),
                 log |-> RevertLog(schema)],
                schema.colFPFmt),
            schema.f32fmt, schema.colFP32, "f32"),
        schema.f64fmt, schema.colFP64, "f64")

\* normalize was not called yet
InitNorm ==
    [fpset |-> FALSE, called |-> FALSE, vals |-> <<>>, out |-> <<>>,
     log |-> <<>>]

(***************************************************************************)
(* common/schema.py: ver_dataframe.  A data frame is the sequence of its   *)
(* columns, each <<name, dtype>>.                                          *)
(***************************************************************************)
\* no call of ver_dataframe yet
InitVer ==
    [df |-> <<>>, blab |-> FALSE, called |-> FALSE, ret |-> <<>>,
     said |-> <<>>, examined |-> 0]

\* the locals of ver_dataframe at the start of its loop
VerStart == [isaok |-> TRUE, ncols |-> 0, said |-> <<>>, returned |-> FALSE]

\* ptype of ver_dataframe: the dtype of the column, np.bytes_ for 'object'
ObservedType(dtype) == IF dtype = "object" THEN "bytes_" ELSE dtype

\* a complaint after which the loop goes on whatever blab is
VerSayMut(st, what, blab) ==
    [st EXCEPT !.said = Append(@, what), !.isaok = FALSE]

\* ErrInfo.say and what follows it in the loop: without blab, return []
VerSay(st, what, blab) ==
    [st EXCEPT !.said = Append(@, what),
               !.isaok = FALSE,
               !.returned = ~blab]

\* the try block of the loop for one column whose name the schema holds
VerTyped(st, cname, stype, ptype, blab) ==
    IF stype # ptype THEN VerSay(st, <<"wrong datatype", cname>>, blab)
    ELSE st

\* the body of the loop of ver_dataframe for one column
VerColumn(st, colTypes, col, blab) ==
    IF col[1] \in DOMAIN colTypes
    THEN VerTyped(st, col[1], colTypes[col[1]], ObservedType(col[2]), blab)
    ELSE VerSay(st, <<"non-schema column", col[1]>>, blab)

\* the loop of ver_dataframe over the columns from number k on
RECURSIVE VerLoop(_, _, _, _, _)
VerLoop(st, colTypes, frame, k, blab) ==
    IF k > Len(frame) \/ st.returned THEN st
    ELSE VerLoop(VerColumn([st EXCEPT !.ncols = @ + 1], colTypes, frame[k],
                           blab),
                 colTypes, frame, k + 1, blab)

\* the number of entries of the dict colTypes
DictLen(d) == Cardinality(DOMAIN d)

\* the check of the column counts, unless the loop has returned
VerCount(st, ntypes) ==
    IF ~st.returned /\ st.ncols # ntypes
    THEN [st EXCEPT !.said = Append(@, <<"cols do not match", ntypes>>),
                    !.isaok = FALSE]
    ELSE st

\* a result that hands every column name of the schema to the output
VerResultMut(schema, st, frame, blab) ==
    [df |-> frame, blab |-> blab, called |-> TRUE,
     ret |-> IF st.isaok THEN schema.colNames ELSE <<>>,
     said |-> st.said, examined |-> st.ncols]

\* the result of ver_dataframe from its locals at the end
VerResult(schema, st, frame, blab) ==
    [df |-> frame, blab |-> blab, called |-> TRUE,
     ret |-> IF st.isaok THEN Slice(schema.colNames, 0, schema.colOrigs)
             ELSE <<>>,
     said |-> st.said, examined |-> st.ncols]

\* Schema.ver_dataframe(df, blab)
VerDataframe(schema, frame, blab) ==
    VerResult(schema,
              VerCount(VerLoop(VerStart, schema.colTypes, frame, 1, blab),
                       DictLen(schema.colTypes)),
              frame, blab)

(***************************************************************************)
(* csv2pq/csv2pq.py and pq2csv/pq2csv.py: the steps of a conversion.       *)
(***************************************************************************)
\* main of csv2pq after config(): Csv2Csv.setup, and the Csv2Csv object of
\* the input file when rows need processing
Setup(nils, nans, seps) ==
    /\ pc = "config"
    /\ \E nil \in nils, nan \in nans, sep \in seps :
          Csv2Csv' = SetupCsv2Csv(Schema, nil, nan, sep)
    /\ csv' = [nRow |-> 0, nRead |-> 0, fetched |-> "none"]
    /\ castWraps' \in BOOLEAN
    /\ pc' = IF Len(Schema.colNVChk) > 0 \/ Schema.colOrigs > 0
             THEN "reading" ELSE "plain"
    /\ UNCHANGED <<schemaVars, err, row, rec, readErr, df, dfBad, auxVars>>

\* the state one call of read() leaves, res being what it raised or
\* returned: convert wraps whatever read() raises in a FatalError
ReadOutcome(r, res) ==
    /\ row' = r
    /\ rec' = res.rec
    /\ readErr' = res.err
    /\ IF res.err.cls # "none"
       THEN /\ err' = FatalError(res.err.cls,
                                 <<"Unable to create pandas dataframe">>)
            /\ pc' = "exit99"
            /\ csv' = [csv EXCEPT !.fetched = "row"]
            /\ UNCHANGED <<df, dfBad>>
       ELSE /\ csv' = [csv EXCEPT !.nRead = @ + 1, !.fetched = "row"]
            /\ df' = ParseRec(Schema, res.rec, Csv2Csv.sepC, Csv2Csv.nilV,
                              castWraps)
            /\ dfBad' = (dfBad \/ HasBad(df'))
            /\ UNCHANGED <<err, pc>>

\* one call of read() by read_csv, the csv reader returning one of `rows'
Read(rows) ==
    /\ pc = "reading"
    /\ csv.nRead < MaxRows
    /\ \E r \in rows : ReadOutcome(r, ReadRow(Csv2Csv, csv, r))
    /\ UNCHANGED <<schemaVars, Csv2Csv, castWraps, auxVars>>

\* one call of read() in which the csv reader itself raises
ReadFails ==
    /\ pc = "reading"
    /\ csv.nRead < MaxRows
    /\ readErr' = FatalError("Error", <<"Unable to convert csv row", csv.nRow,
                                        "in file">>)
    /\ err' = FatalError("FatalError", <<"Unable to create pandas dataframe">>)
    /\ pc' = "exit99"
    /\ csv' = [csv EXCEPT !.fetched = "raised"]
    /\ UNCHANGED <<schemaVars, Csv2Csv, row, rec, df, dfBad, castWraps,
                   auxVars>>

\* the call of read() that meets the end of the file, and the rest of
\* convert: the data frame is built and written out
ReadEOF ==
    /\ pc = "reading"
    /\ \/ /\ dfBad
          /\ err' = FatalError("ValueError",
                               <<"Unable to create pandas dataframe">>)
          /\ pc' = "exit99"
       \/ /\ ~dfBad
          /\ err' = FatalError("OSError", <<"Unable to create parquet file">>)
          /\ pc' = "exit99"
       \/ /\ ~dfBad
          /\ err' = err
          /\ pc' = "written"
    /\ UNCHANGED <<schemaVars, rowVars, auxVars>>

\* Schema.normalize on the data frame read back from the file written,
\* with the null marker of the encoding run
Normalize ==
    /\ pc = "written"
    /\ csv.nRead > 0
    /\ df' = NormalizeDf(Schema, Schema.colNames, df, Csv2Csv.nilV).row
    /\ pc' = IF HasRaise(df') THEN "crash" ELSE "normalized"
    /\ UNCHANGED <<schemaVars, err, Csv2Csv, csv, row, rec, readErr, dfBad,
                   castWraps, auxVars>>

\* the state convert of pq2csv is in after ver_dataframe returned v: an
\* empty list makes it raise ParmError 1
\* str(dtype) of set_schema, 'char' for object
SpecType(dtype) == IF dtype = "object" THEN "char" ELSE dtype

\* Schema.set_schema: the schema is that of the frame
RECURSIVE SetCols(_, _)
SetCols(s, frame) ==
    IF Len(frame) = 0 THEN s
    ELSE SetCols([AddCol(s, frame[1][1])
                     EXCEPT !.colSpecs = Append(@, <<frame[1][1], <<>>,
                                                    SpecType(frame[1][2])>>)],
                 Tail(frame))

SetSchema(s, frame) ==
    [SetCols([s EXCEPT !.colNames = <<>>], frame)
        EXCEPT !.cNameMaw = SetCols([s EXCEPT !.colNames = <<>>], frame).cNameMax,
               !.colOrigs = Len(frame)]

\* convert of pq2csv building a schema of every frame it reads
ConvertSchemaMut(s, frame, given, display) == SetSchema(s, frame)

\* what convert of pq2csv leaves of the schema s for a frame: with
\* --schema (given) it is only consulted, without it --display builds one
ConvertSchema(s, frame, given, display) ==
    IF ~given /\ display THEN SetSchema(s, frame) ELSE s

VerOutcome(v) ==
    /\ ver' = v
    /\ IF Len(v.ret) = 0
       THEN /\ err' = ParmError(1, <<"Schema verification failed for", "infile">>)
            /\ pc' = "exit99"
       ELSE /\ err' = err
            /\ pc' = "verified"

\* convert of pq2csv up to the verification: the file is read into a data
\* frame, one of `frames', and verified against the schema
Verify(frames, blabs) ==
    /\ pc \in {"start", "config"}
    /\ \/ \* read_table, to_pandas or reset_index fails
          /\ err' = FatalError("Error",
                               <<"Unable to create pandas dataframe from",
                                 "infile">>)
          /\ pc' = "exit99"
          /\ ver' = ver
          /\ Schema' = Schema
       \/ \* --schema was given: the frame is verified against it
          /\ pc = "config"
          /\ \E f \in frames, b \in blabs :
               /\ VerOutcome(VerDataframe(Schema, f, b))
               \* config has displayed the schema and cleared --display
               /\ Schema' = ConvertSchema(Schema, f, TRUE, FALSE)
       \/ \* no --schema: the frame is taken as it is, and --display makes
          \* a schema of it
          /\ pc = "start"
          /\ \E f \in frames, display \in BOOLEAN :
               /\ Schema' = ConvertSchema(Schema, f, FALSE, display)
               /\ ver' = [InitVer EXCEPT !.df = f]
          /\ pc' = "verified"
          /\ err' = err
    /\ UNCHANGED <<schfile, doAuto, errLine, rowVars, norm, io, fs, run>>

\* format(float(12.13), fmt) of config raises ValueError: of the formats
\* of this model those that are not '.<digits>f'
FmtInvalid(fmt) ==
    ~ /\ Len(fmt) >= 3
      /\ fmt[1] = "."
      /\ fmt[Len(fmt)] = "f"
      /\ PyInt(SubSeq(fmt, 2, Len(fmt) - 1)).ok

\* config of pq2csv, the options --f32fmt and --f64fmt: a format that is
\* given is validated, then Schema.setfp stores both
SetFp(f32s, f64s) ==
    /\ pc = "start"
    /\ ~norm.fpset
    /\ \E f32 \in f32s, f64 \in f64s :
         IF f32.given /\ FmtInvalid(f32.text)
         THEN /\ err' = ParmError(3, <<"f32fmt value", f32.text>>)
              /\ pc' = "exit99"
              /\ UNCHANGED <<Schema, norm>>
         ELSE IF f64.given /\ FmtInvalid(f64.text)
         THEN /\ err' = ParmError(3, <<"f64fmt value", f64.text>>)
              /\ pc' = "exit99"
              /\ UNCHANGED <<Schema, norm>>
         ELSE /\ Schema' = [Schema EXCEPT !.f32fmt = f32, !.f64fmt = f64]
              /\ norm' = [norm EXCEPT !.fpset = TRUE]
              /\ UNCHANGED <<pc, err>>
    /\ UNCHANGED <<schfile, doAuto, errLine, rowVars, ver, io, fs, run>>

\* the names of the columns of a frame
FrameNames(frame) == [i \in 1..Len(frame) |-> frame[i][1]]

\* the rows a frame with the given columns can hold: a value of the dtype
\* of each column, drawn from vals
RECURSIVE FrameRows(_, _)
FrameRows(frame, vals) ==
    IF Len(frame) = 0 THEN {<<>>}
    ELSE {<<v>> \o r : v \in vals[frame[1][2]],
                       r \in FrameRows(Tail(frame), vals)}

\* what normalize left of the row dfrow: d is its result
Normalized(dfrow, d) ==
    [fpset |-> TRUE, called |-> TRUE, vals |-> dfrow, out |-> d.row,
     log |-> d.log]

\* convert of pq2csv after the verification: without an output file
\* nothing is left to do, with one the frame is normalized and written
Emit(vals, nils) ==
    /\ pc = "verified"
    /\ \/ \* not outfile
          /\ pc' = "done"
          /\ UNCHANGED <<err, norm>>
       \/ \E r \in FrameRows(ver.df, vals), nil \in nils :
            /\ norm' = Normalized(r, NormalizeDf(Schema, FrameNames(ver.df),
                                                 r, nil))
            /\ \/ \* an exception of map() leaves normalize and convert
                  /\ HasRaise(norm'.out)
                  /\ pc' = "crash"
                  /\ err' = [cls |-> "ValueError", msgnum |-> 0,
                             args |-> <<>>, shown |-> <<>>]
               \/ \* to_csv writes the file
                  /\ ~HasRaise(norm'.out)
                  /\ pc' = "done"
                  /\ err' = err
               \/ \* to_csv fails
                  /\ ~HasRaise(norm'.out)
                  /\ pc' = "exit99"
                  /\ err' = FatalError("Error",
                                       <<"Unable to create csv file from",
                                         "infile">>)
    /\ UNCHANGED <<schemaVars, rowVars, ver, io, fs, run>>

(***************************************************************************)
(* common/iofiles.py: the lists of input and output files.  A path is a    *)
(* text, the file system the set of the paths of its files.                *)
(***************************************************************************)
\* s.rfind(c) for a one-character c: last 0-based index, or -1
RFind(s, c) ==
    IF \E i \in 1..Len(s) : s[i] = c
    THEN (CHOOSE i \in 1..Len(s) :
            s[i] = c /\ \A j \in (i + 1)..Len(s) : s[j] # c) - 1
    ELSE -1

\* s.endswith(sfx)
EndsWith(s, sfx) ==
    Len(sfx) <= Len(s) /\ SubSeq(s, Len(s) - Len(sfx) + 1, Len(s)) = sfx

\* s.startswith(pfx)
StartsWith(s, pfx) == Len(pfx) <= Len(s) /\ SubSeq(s, 1, Len(pfx)) = pfx

\* the class attributes of IOFiles as the class statement leaves them
InitIO ==
    [fIN |-> <<>>, fOUT |-> <<>>, blab |-> FALSE, skip |-> FALSE,
     skipRep |-> FALSE, replace |-> FALSE]

\* the parts of a template, or the error it raises
Template(xdir, dirsfx, endsfx) ==
    [err |-> NoErr, xdir |-> xdir, dirsfx |-> dirsfx, endsfx |-> endsfx]

TemplateError(what, stmp) ==
    [err |-> ParmError(3, <<what, stmp>>), xdir |-> <<>>, dirsfx |-> <<>>,
     endsfx |-> <<>>]

\* _apply_template, the '+sfx' part: tmplt is what is left of the template
TmplEnd(stmp, xdir, dirsfx, tmplt) ==
    IF Slice(tmplt, 0, 1) = <<"+">> /\ Len(tmplt) > 1
    THEN Template(xdir, dirsfx, SliceFrom(tmplt, 1))
    ELSE IF Len(tmplt) > 0
    THEN TemplateError("suffix specification in template", stmp)
    ELSE Template(xdir, dirsfx, <<>>)

\* _apply_template, the '-sfx' part; n = tmplt.find('+')
TmplCut(stmp, xdir, tmplt, n) ==
    IF n < 0 THEN TmplEnd(stmp, xdir, SliceFrom(tmplt, 1), <<>>)
    ELSE TmplEnd(stmp, xdir, Slice(tmplt, 1, n), SliceFrom(tmplt, n))

TmplSfx(stmp, xdir, tmplt) ==
    IF Len(tmplt) = 0 THEN Template(xdir, <<>>, <<>>)
    ELSE IF Slice(tmplt, 0, 1) = <<"-">> /\ Len(tmplt) > 1
    THEN TmplCut(stmp, xdir, tmplt, Find(tmplt, "+"))
    ELSE TmplEnd(stmp, xdir, <<>>, tmplt)

\* _apply_template, the '=dir/' part; n = tmplt.rfind('/')
TmplDir(tmplt, n) ==
    IF n < 0
    THEN TemplateError("directory specification in template", tmplt)
    ELSE TmplSfx(tmplt, Slice(tmplt, 1, n + 1), SliceFrom(tmplt, n + 1))

\* the parsing of the template in _apply_template
ParseTemplate(tmplt) ==
    IF Slice(tmplt, 0, 1) = <<"=">> THEN TmplDir(tmplt, RFind(tmplt, "/"))
    ELSE TmplSfx(tmplt, <<>>, tmplt)

\* the loop body of _apply_template: the directory is replaced
InDir(infile, xdir, n) ==
    IF Len(xdir) = 0 THEN infile
    ELSE IF n >= 0 THEN xdir \o SliceFrom(infile, n + 1)
    ELSE xdir \o infile

\* the suffix removed by its length, whatever the name ends with
CutSuffixMut(infile, dirsfx) ==
    IF Len(dirsfx) > 0 /\ Len(dirsfx) <= Len(infile)
    THEN Slice(infile, 0, Len(infile) - Len(dirsfx))
    ELSE infile

\* the loop body of _apply_template: the suffix dirsfx is removed
CutSuffix(infile, dirsfx) ==
    IF Len(dirsfx) > 0 /\ EndsWith(infile, dirsfx)
    THEN Slice(infile, 0, Len(infile) - Len(dirsfx))
    ELSE infile

\* the output file name _apply_template makes of one input file name
TemplateName(infile, tp) ==
    CutSuffix(InDir(infile, tp.xdir, RFind(infile, "/")), tp.dirsfx)
    \o tp.endsfx

\* what a step of config leaves: the exception raised and the two lists
Files(e, fin, fout, any) ==
    [err |-> e, fIN |-> fin, fOUT |-> fout, any |-> any]

\* _apply_template(tmplt) with the template parsed into tp
ApplyParsed(fIN, tp) ==
    IF tp.err.cls # "none" THEN Files(tp.err, fIN, <<>>, TRUE)
    ELSE Files(NoErr, fIN,
               [j \in 1..Len(fIN) |-> TemplateName(fIN[j], tp)], TRUE)

\* IOFiles.get_outfiles(outfile)
GetOutfiles(fIN, outfile) ==
    IF Len(outfile) = 0 THEN Files(NoErr, fIN, <<>>, TRUE)
    ELSE IF outfile[1] \in {"+", "-", "="}
    THEN ApplyParsed(fIN, ParseTemplate(outfile))
    ELSE IF Len(fIN) > 1
    THEN Files(ParmError(1, <<"Non templated output file is",
                              "incompatible with multiple input files">>),
               fIN, <<>>, TRUE)
    ELSE Files(NoErr, fIN, <<outfile>>, TRUE)

\* the names read from stdin before the first one that is not a file
RECURSIVE FilesOk(_, _)
FilesOk(files, lines) ==
    IF Len(lines) = 0 \/ lines[1] \notin files THEN <<>>
    ELSE <<lines[1]>> \o FilesOk(files, Tail(lines))

\* os.path.exists(path) for a path that is not a regular file: it is a
\* directory that holds one of the files
IsDir(files, path) ==
    \E f \in files : StartsWith(f, path \o <<"/">>)

\* the ParmError IOFiles._file_ok(infile) raises for a path that is not a
\* regular file
FileNotOk(files, infile) ==
    IF IsDir(files, infile)
    THEN ParmError(6, <<"Input file", infile, "is not a file">>)
    ELSE ParmError(6, <<"Input file", infile, "not found">>)

\* IOFiles.get_infiles(infile): the ParmError of _file_ok is raised as it
\* is for a named file, and as a FatalError for a file named on stdin
GetInfiles(files, infile, stdin) ==
    IF infile # <<"-">>
    THEN IF Len(infile) = 0 THEN Files(NoErr, <<>>, <<>>, FALSE)
         ELSE IF infile \notin files
         THEN Files(FileNotOk(files, infile), <<>>, <<>>, FALSE)
         ELSE Files(NoErr, <<infile>>, <<>>, TRUE)
    ELSE IF \E i \in 1..Len(stdin) : stdin[i] \notin files
    THEN Files(FatalError("ParmError",
                          <<"Unable to get input files from stdin">>),
               FilesOk(files, stdin), <<>>, FALSE)
    ELSE Files(NoErr, stdin, <<>>, TRUE)

\* IOFiles.set_options(blab, skip, repl)
SetOptions(files, blab, skip, repl) ==
    IF skip /\ repl
    THEN [files EXCEPT !.blab = blab, !.skip = skip, !.skipRep = TRUE,
                       !.replace = FALSE]
    ELSE [files EXCEPT !.blab = blab, !.skip = skip, !.replace = repl]

\* get_filepair: both lists lose their first entry
\* the output list advanced, the input list left as it was
PoppedMut(files) == [files EXCEPT !.fOUT = Tail(@)]

\* get_filepair: fIN.pop(0) and fOUT.pop(0)
Popped(files) == [files EXCEPT !.fIN = Tail(@), !.fOUT = Tail(@)]

\* get_filepair at an output that exists: skipping turns into replacing
\* when no output follows or the next one does not exist
Toggle(files, exist) ==
    IF files.skipRep /\ (Len(files.fOUT) = 0 \/ files.fOUT[1] \notin exist)
    THEN [files EXCEPT !.skipRep = FALSE, !.replace = TRUE]
    ELSE files

\* a call of get_filepair: the class attributes, the file system, what was
\* returned (got: a pair, else [None, None]) or raised, and the outputs
\* the call removed and skipped
CallState(files, exist) ==
    [io |-> files, fs |-> exist, err |-> NoErr, got |-> FALSE,
     ret |-> <<>>, removed |-> <<>>, skipped |-> <<>>]

\* get_filepair returns the pair
Return(st, infile, outfile) ==
    [st EXCEPT !.got = TRUE, !.ret = <<infile, outfile>>]

RECURSIVE GetFilepair(_, _)
\* get_filepair replacing an existing output unless --skip is in effect
PairExistsMut(st, infile, outfile, rmfails) ==
    IF st.io.replace \/ ~st.io.skip
    THEN IF rmfails
         THEN [st EXCEPT !.err = FatalError("OSError",
                                    <<"Unable to replace file", outfile>>)]
         ELSE Return([st EXCEPT !.fs = @ \ {outfile},
                                !.removed = Append(@, outfile)],
                     infile, outfile)
    ELSE GetFilepair([st EXCEPT !.skipped = Append(@, outfile)], rmfails)

\* get_filepair at a pair whose output exists; rmfails: os.remove raises
PairExists(st, infile, outfile, rmfails) ==
    IF st.io.replace
    THEN IF rmfails
         THEN [st EXCEPT !.err = FatalError("OSError",
                                    <<"Unable to replace file", outfile>>)]
         ELSE Return([st EXCEPT !.fs = @ \ {outfile},
                                !.removed = Append(@, outfile)],
                     infile, outfile)
    ELSE IF st.io.skip
    THEN GetFilepair([st EXCEPT !.skipped = Append(@, outfile)], rmfails)
    ELSE [st EXCEPT !.err = ParmError(6, <<"Output file", outfile,
                                           "already exists">>)]

\* get_filepair with a pair taken off the lists
PairStep(st, infile, outfile, rmfails) ==
    IF outfile \in st.fs
    THEN PairExists([st EXCEPT !.io = Toggle(@, st.fs)], infile, outfile,
                    rmfails)
    ELSE Return(st, infile, outfile)

\* IOFiles.get_filepair()
GetFilepair(st, rmfails) ==
    IF Len(st.io.fIN) = 0 THEN st
    ELSE IF Len(st.io.fOUT) = 0
    THEN Return([st EXCEPT !.io.fIN = Tail(@)], st.io.fIN[1], <<>>)
    ELSE PairStep([st EXCEPT !.io = Popped(@)], st.io.fIN[1], st.io.fOUT[1],
                  rmfails)

\* the exit status of main: exit(99) in the except clause of FatalError
\* and ParmError, the status of the interpreter for any other exception
ExitStatus(cls) == IF cls \in {"FatalError", "ParmError"} THEN 99 ELSE 1

\* the options of a command line: --header, --schema (given or not),
\* --skip, --replace, --verify and the two positional arguments
Options(hdr, schema, skp, rep, vfy, infile, outfile) ==
    [hdr |-> hdr, schema |-> schema, skp |-> skp, rep |-> rep, ver |-> vfy,
     infile |-> infile, outfile |-> outfile]

\* the run before the program is started
InitRun ==
    [at |-> "init", prog |-> "",
     opt |-> Options(FALSE, FALSE, FALSE, FALSE, FALSE, <<>>, <<>>),
     stdin |-> <<>>,
     fs0 |-> {}, batch |-> <<>>, hasCur |-> FALSE, cur |-> <<>>,
     exit |-> -1, caught |-> FALSE, removed |-> <<>>, skipped |-> <<>>,
     returned |-> <<>>]

\* an exception that is neither a FatalError nor a ParmError
OtherError(cls) ==
    [cls |-> cls, msgnum |-> 0, args |-> <<>>, shown |-> <<>>]

\* the run once the command line c was handed to the program
Started(c, at, status) ==
    [InitRun EXCEPT !.at = at, !.prog = c.prog, !.opt = c.opt,
                    !.stdin = c.stdin, !.fs0 = c.fs, !.exit = status]

\* main up to the --header step of config: argparse ends the program
\* with status 2 at an option the syntax does not define (--verify for
\* csv2pq), and config of csv2pq reads CmdInfo.schema when --header is given
Start(cmds) ==
    /\ run.at = "init"
    /\ pc = "start"
    /\ \E c \in cmds :
         /\ fs' = c.fs
         /\ IF c.prog = "csv2pq" /\ c.opt.ver
            THEN run' = Started(c, "exit", 2) /\ err' = err
            ELSE IF c.prog = "csv2pq" /\ c.opt.hdr
            THEN /\ run' = Started(c, "parsed", -1)
                 /\ err' = OtherError("AttributeError")
            ELSE run' = Started(c, "parsed", -1) /\ err' = err
    /\ UNCHANGED <<pc, schemaVars, rowVars, ver, norm, io>>

\* config after get_outfiles returned o
OutfilesOutcome(o) ==
    /\ err' = o.err
    /\ io' = IF o.err.cls = "none"
             THEN [io EXCEPT !.fIN = o.fIN, !.fOUT = o.fOUT]
             ELSE io
    /\ run' = [run EXCEPT !.at = "files"]

\* config after get_infiles returned r
InfilesOutcome(r) ==
    IF r.err.cls # "none"
    THEN /\ err' = r.err
         /\ io' = [io EXCEPT !.fIN = r.fIN]
         /\ run' = [run EXCEPT !.at = "files"]
    ELSE IF ~r.any
    THEN /\ err' = ParmError(2, <<"Input file">>)
         /\ io' = io
         /\ run' = [run EXCEPT !.at = "files"]
    ELSE OutfilesOutcome(GetOutfiles(r.fIN, run.opt.outfile))

\* config: get_infiles and get_outfiles
GetFiles ==
    /\ run.at = "parsed"
    /\ err.cls = "none"
    /\ InfilesOutcome(GetInfiles(fs, run.opt.infile, run.stdin))
    /\ UNCHANGED <<pc, schemaVars, rowVars, ver, norm, fs>>

\* the pairs of a batch
Pairs(files) ==
    [j \in 1..Len(files.fIN) |->
        <<files.fIN[j], IF j <= Len(files.fOUT) THEN files.fOUT[j] ELSE <<>>>>]

\* the end of config and main up to its loop: without input files the
\* program ends with status 0, else set_options and, in csv2pq,
\* Csv2Csv.setup are called
Prepare ==
    /\ run.at = "files"
    /\ err.cls = "none"
    /\ run.opt.schema => pc = "config"
    /\ IF Len(io.fIN) = 0
       THEN /\ run' = [run EXCEPT !.at = "exit", !.exit = 0]
            /\ UNCHANGED <<io, Csv2Csv>>
       ELSE /\ run' = [run EXCEPT !.at = "loop", !.batch = Pairs(io)]
            /\ io' = SetOptions(io, FALSE, run.opt.skp, run.opt.rep)
            /\ Csv2Csv' = IF run.prog = "csv2pq"
                          THEN SetupCsv2Csv(Schema, <<"\\", "N">>, 0, <<",">>)
                          ELSE Csv2Csv
    /\ UNCHANGED <<pc, schemaVars, err, csv, row, rec, readErr, df, dfBad,
                   castWraps, ver, norm, fs>>

\* main after get_filepair returned or raised: st is the state of the call
PairOutcome(st) ==
    /\ io' = st.io
    /\ fs' = st.fs
    /\ err' = st.err
    /\ run' = [run EXCEPT
                 !.removed = @ \o st.removed,
                 !.skipped = @ \o st.skipped,
                 !.returned = IF st.got THEN Append(@, st.ret) ELSE @,
                 !.hasCur = st.got,
                 !.cur = st.ret,
                 !.at = IF st.err.cls = "none" /\ ~st.got THEN "exit" ELSE @,
                 !.exit = IF st.err.cls = "none" /\ ~st.got THEN 0 ELSE @]

\* the loop of main: the next pair is fetched; without one the loop and
\* the program end
GetPair ==
    /\ run.at = "loop"
    /\ ~run.hasCur
    /\ err.cls = "none"
    /\ \E rmfails \in BOOLEAN :
         PairOutcome(GetFilepair(CallState(io, fs), rmfails))
    /\ UNCHANGED <<pc, schemaVars, rowVars, ver, norm>>

\* the file system after a conversion wrote outfile
Written(exist, outfile) ==
    IF Len(outfile) > 0 THEN exist \cup {outfile} ELSE exist

\* the loop of main: the pair is converted.  convert of csv2pq reads
\* CmdInfo.skipRows, which only the --header step of config sets, inside
\* the try statement around read_csv; convert of pq2csv writes the output
\* file, or raises as the conversion specifications show
Convert ==
    /\ run.at = "loop"
    /\ run.hasCur
    /\ err.cls = "none"
    /\ \/ /\ run.prog = "csv2pq"
          /\ err' = FatalError("AttributeError",
                               <<"Unable to create pandas dataframe">>)
          /\ UNCHANGED <<fs, run>>
       \/ /\ run.prog = "csv2pq"
          /\ Len(Schema.colNVChk) > 0 \/ Schema.colOrigs > 0
          /\ err' = FatalError("OSError",
                               <<"Unable to open input file", run.cur[1]>>)
          /\ UNCHANGED <<fs, run>>
       \/ /\ run.prog = "pq2csv"
          /\ fs' = Written(fs, run.cur[2])
          /\ run' = [run EXCEPT !.hasCur = FALSE]
          /\ err' = err
       \/ /\ run.prog = "pq2csv"
          /\ err' = FatalError("Error",
                               <<"Unable to create pandas dataframe from",
                                 run.cur[1]>>)
          /\ UNCHANGED <<fs, run>>
       \/ /\ run.prog = "pq2csv"
          /\ run.opt.schema
          /\ err' = ParmError(1, <<"Schema verification failed for",
                                   run.cur[1]>>)
          /\ UNCHANGED <<fs, run>>
    /\ UNCHANGED <<pc, schemaVars, rowVars, ver, norm, io>>

\* the end of main at an exception: the except clause of FatalError and
\* ParmError exits with its status, any other exception leaves main
Catch ==
    /\ run.at \in {"parsed", "files", "loop"}
    /\ err.cls # "none"
    /\ run' = [run EXCEPT !.at = "exit",
                          !.exit = ExitStatus(err.cls),
                          !.caught = err.cls \in {"FatalError", "ParmError"}]
    /\ UNCHANGED <<pc, schemaVars, err, rowVars, ver, norm, io, fs>>

(***************************************************************************)
(* Inputs: schema files.                                                   *)
(***************************************************************************)
N_a == <<"a">>
N_b == <<"b">>

\* a schema line from its tokens
Line(toks) == Join(toks, <<" ">>)

Capitalize(t) == [i \in 1..Len(t) |-> IF i = 1 THEN UpperChar(t[i]) ELSE t[i]]

\* the type vocabulary documented for schema files
VocabTokens ==
    {T_int8, T_int16, T_int32, T_int64, T_short, T_int, T_long, T_bigint,
     T_smallint, T_tinyint, T_float32, T_float64, T_float, T_double,
     T_char, T_varchar, T_bool, T_datetime}

\* the vocabulary in lower, upper and mixed case
CasedVocabTokens ==
    UNION {{t, PyUpper(t), Capitalize(t)} : t \in VocabTokens}

\* decimal(p[,s]) as written in a schema file
DecTok(args) == T_decimal \o args \o <<")">>

\* decimal(p) and decimal(p,0)
DecIntTokens ==
    {DecTok(PyStr(p)) : p \in 0..MaxPrec}
    \cup {DecTok(PyStr(p) \o <<",", "0">>) : p \in 0..MaxPrec}
    \cup {PyUpper(DecTok(PyStr(p))) : p \in 0..MaxPrec}

\* decimal(p,s) with s > 0
DecFloatTokens ==
    {DecTok(PyStr(p) \o <<",">> \o PyStr(sc)) : p \in 0..MaxPrec, sc \in 1..MaxScale}
    \cup {PyUpper(DecTok(<<"7",",","1">>))}

\* malformed decimal specs: non-integer or negative precision or scale,
\* empty parentheses, missing close-paren
MalformedDecTokens ==
    {DecTok(<<"a","b","c">>), DecTok(<<"5",".","5">>), DecTok(<<",","2">>),
     DecTok(<<"5",",","x">>), DecTok(<<"5",",">>), DecTok(<<"5",",","1",".","5">>),
     DecTok(<<"-","1",",","2">>), DecTok(<<"-","1">>), DecTok(<<"5",",","-","2">>),
     DecTok(<<>>),
     T_decimal \o <<"5">>, T_decimal \o <<"5",",","2">>, T_decimal,
     PyUpper(T_decimal \o <<"5",",","2">>)}

\* tokens outside the vocabulary that share no prefix with it
UnknownTokens ==
    {<<"s","t","r","i","n","g">>, <<"i","n","t","e","g","e","r">>,
     <<"t","e","x","t">>, <<"d","e","c","i","m","a","l">>,
     <<"I","N","T","1","2","8">>, <<"f","o","o">>, <<"i","n","t",",">>}

\* tokens outside the vocabulary that begin with char or varchar
CharPrefixTokens ==
    {<<"c","h","a","r","l","i","e">>, <<"C","h","a","r","t">>,
     <<"v","a","r","c","h","a","r","2">>}

\* decimal specs followed by the comma that may end a schema line
DecCommaTokens ==
    {DecTok(<<"5",",","2">>) \o <<",">>, DecTok(<<"2">>) \o <<",">>}

AllTypeTokens ==
    CasedVocabTokens \cup DecIntTokens \cup DecFloatTokens
    \cup MalformedDecTokens \cup UnknownTokens \cup CharPrefixTokens
    \cup DecCommaTokens

\* what may follow the type on a schema line
Rests == {<<>>, <<T_NOT, T_NULL>>, <<PyLower(T_NOT), PyLower(T_NULL)>>}

\* schema files of one column, over every type token
OneLineFiles ==
    {<<Line(<<N_a, t>> \o r)>> : t \in AllTypeTokens, r \in Rests}

\* the type tokens of the longer schema files
BaseTypeTokens ==
    {T_int, T_varchar, DecTok(<<"5",",","2">>), DecTok(<<"9",",","1">>),
     T_decimal \o <<"5">>}

\* the lines of the longer schema files: a blank line, a name alone, a
\* name and a type, or a name and an integer type with NOT NULL
BaseLines ==
    {<<>>, <<" ">>, Line(<<N_a>>)}
    \cup {Line(<<n, t>>) : n \in {N_a, N_b}, t \in BaseTypeTokens}
    \cup {Line(<<n, T_int, T_NOT, T_NULL>>) : n \in {N_a, N_b}}

ManyLineFiles == UNION {[1..n -> BaseLines] : n \in 0..MaxLines}

\* what may follow the type where nullability is looked at: the phrase in
\* several spellings, with a comma, inside longer words, and its words
\* alone or in the other order
NullRests ==
    {<<T_NULL>>, <<T_NOT>>, <<T_NULL, T_NOT>>, <<T_NOT, T_NULL \o <<",">>>>,
     <<Capitalize(T_NOT), Capitalize(T_NULL)>>,
     <<<<"x">>, PyLower(T_NOT), PyLower(T_NULL)>>,
     <<<<"K">> \o T_NOT, T_NULL \o <<"S">>>>}

\* schema files of one column whose type token ends with NOT, or is int
NullFiles ==
    {<<Line(<<N_a, t>> \o r)>> : t \in {T_int, T_char \o T_NOT},
                                 r \in NullRests}

SchemaFiles == OneLineFiles \cup ManyLineFiles \cup NullFiles

(***************************************************************************)
(* Specification of schema parsing: one run of get_schema.                 *)
(***************************************************************************)
Init ==
    /\ pc = "start"
    /\ schfile = <<>>
    /\ doAuto = FALSE
    /\ Schema = InitSchema
    /\ err = NoErr
    /\ errLine = 0
    /\ Csv2Csv = InitCsv2Csv
    /\ csv = [nRow |-> 0, nRead |-> 0, fetched |-> "none"]
    /\ row = <<>>
    /\ rec = <<>>
    /\ readErr = NoErr
    /\ df = <<>>
    /\ dfBad = FALSE
    /\ castWraps = FALSE
    /\ ver = InitVer
    /\ norm = InitNorm
    /\ io = InitIO
    /\ fs = {}
    /\ run = InitRun

ParseSchema == GetSchema(SchemaFiles, BOOLEAN)

Next == ParseSchema

Spec == Init /\ [][Next]_vars

\* get_schema called twice on the same schema file
NextTwice ==
    \/ ParseSchema
    \/ GetSchemaAgain

SpecTwice == Init /\ [][NextTwice]_vars

(***************************************************************************)
(* Specification of one conversion: the schema is parsed, the rows of one  *)
(* csv file are read and encoded, and the batch is decoded again.          *)
(***************************************************************************)
\* the name of the i-th column of a row schema
RowName(i) == <<"c", Digits[i + 1]>>

\* what follows the name on the lines of a row schema
RowKinds == {<<T_int8>>, <<T_varchar>>}

RowFiles ==
    UNION {{[i \in 1..n |-> Line(<<RowName(i)>> \o k[i])] : k \in [1..n -> RowKinds]}
           : n \in 1..MaxRowCols}

\* the null markers, null substitutes and separators of the runs
NilValues == {<<"\\", "N">>, <<"0">>}
NanValues == {0, 300}
SepValues == {<<",">>}

\* the fields of the csv rows
Fields == {<<"\\", "N">>, <<"0">>, <<"-", "0", "7">>, <<"3", "0", "0">>}

\* the rows the csv reader returns: every row of the declared length, and
\* rows shorter and longer than that
CsvRows ==
    [1..Schema.colOrigs -> Fields]
    \cup {[i \in 1..m |-> <<"0">>] : m \in 0..(MaxRowCols + 1)}

ParseRowSchema == GetSchema(RowFiles, {FALSE})
SetupRun == Setup(NilValues, NanValues, SepValues)
ReadNext == Read(CsvRows)

NextRow ==
    \/ ParseRowSchema
    \/ SetupRun
    \/ ReadNext
    \/ ReadFails
    \/ ReadEOF
    \/ Normalize

SpecRow == Init /\ [][NextRow]_vars

(***************************************************************************)
(* Specification of one verification by pq2csv: the schema is parsed and   *)
(* the data frame of one parquet file is verified against it.              *)
(***************************************************************************)
N_z == <<"z">>
N_index == <<"i", "n", "d", "e", "x">>

\* the lines of the schema files
VerLines ==
    {Line(<<N_a, T_int>>), Line(<<N_a, T_int, T_NOT, T_NULL>>),
     Line(<<N_b, T_varchar>>)}

VerFiles == UNION {[1..n -> VerLines] : n \in 0..MaxVerLines}

\* the columns a parquet file may hold
FileColumns ==
    {<<N_a, "int32">>, <<N_a, "object">>, <<N_b, "object">>,
     <<N_b, "int32">>, <<N_a \o T_ISNULL, "bool_">>, <<N_z, "int32">>}

\* what reset_index puts in front: the column 'index' of a file without a
\* stored index, or the stored index under its name
IndexColumns == {<<N_index, "int64">>, <<N_a, "int32">>}

\* the names of the columns of a frame are all different
DistinctNames(f) ==
    \A i, j \in 1..Len(f) : i # j => f[i][1] # f[j][1]

\* the data frames after reset_index
Frames ==
    {f \in UNION {{<<ix>> \o cols : ix \in IndexColumns,
                                    cols \in [1..n -> FileColumns]}
                  : n \in 0..MaxVerCols} : DistinctNames(f)}

ParseVerSchema == GetSchema(VerFiles, {FALSE})
VerifyFrame == Verify(Frames, BOOLEAN)

NextVer ==
    \/ ParseVerSchema
    \/ VerifyFrame

SpecVer == Init /\ [][NextVer]_vars

(***************************************************************************)
(* Specification of one conversion by pq2csv: the formats of the floating  *)
(* values are set, the schema is parsed, the data frame of one parquet     *)
(* file is verified, normalized and written.                               *)
(***************************************************************************)
\* the lines of the schema files
NormLines ==
    {Line(<<N_a, T_float>>), Line(<<N_b, T_double>>),
     Line(<<N_a, DecTok(<<"5", ",", "2">>)>>), Line(<<N_a, T_int>>)}

NormFiles == UNION {[1..n -> NormLines] : n \in 1..MaxNormLines}

\* the values of the options --f32fmt and --f64fmt
F32Formats == {NoFmt, [given |-> TRUE, text |-> <<".", "1", "f">>]}
F64Formats ==
    {NoFmt, [given |-> TRUE, text |-> <<".", "3", "f">>],
     [given |-> TRUE, text |-> <<".", "3", "q">>]}

\* the columns a parquet file may hold besides its index
NormColumns ==
    {<<N_b, "float64">>, <<N_a \o T_ISNULL, "bool_">>}

\* the stored index reset_index puts in front
NormIndexColumns == {<<N_a, "float32">>, <<N_a, "int32">>}

NormFrames ==
    {f \in UNION {{<<ix>> \o cols : ix \in NormIndexColumns,
                                    cols \in [1..n -> NormColumns]}
                  : n \in 0..MaxNormCols} : DistinctNames(f)}

\* a floating value: its sign, its integer part and its decimals
Float(neg, int, frac) ==
    [t |-> "float", neg |-> neg, int |-> int, frac |-> frac]

\* floating values: 0.0, -0.0, 1.2, 1.0, 100.0, -0.0004, 0.125 and 9.96
FloatValues ==
    {Float(FALSE, 0, <<>>), Float(TRUE, 0, <<>>), Float(FALSE, 1, <<2>>),
     Float(FALSE, 1, <<>>), Float(FALSE, 100, <<>>),
     Float(TRUE, 0, <<0, 0, 0, 4>>), Float(FALSE, 0, <<1, 2, 5>>),
     Float(FALSE, 9, <<9, 6>>)}

\* the values a column of each dtype holds
NormValues ==
    [float32 |-> FloatValues \cup {NaN},
     float64 |-> FloatValues \cup {NaN},
     int32 |-> {[t |-> "int", v |-> 0], [t |-> "int", v |-> 7]},
     bool_ |-> {[t |-> "bool", v |-> FALSE], [t |-> "bool", v |-> TRUE]}]

SetFormats == SetFp(F32Formats, F64Formats)
ParseNormSchema == norm.fpset /\ GetSchema(NormFiles, {FALSE})
VerifyNormFrame == Verify(NormFrames, {FALSE})
EmitFrame == Emit(NormValues, {<<"\\", "N">>})

NextNorm ==
    \/ SetFormats
    \/ ParseNormSchema
    \/ VerifyNormFrame
    \/ EmitFrame

SpecNorm == Init /\ [][NextNorm]_vars

(***************************************************************************)
(* The same conversion with a run-wide format without decimals: config    *)
(* accepts '.0f', format(12.13, '.0f') being '12'.                         *)
(***************************************************************************)
WholeFormats == {NoFmt, [given |-> TRUE, text |-> <<".", "0", "f">>]}

SetWholeFormats == SetFp(WholeFormats, F64Formats \cup WholeFormats)

NextFmt ==
    \/ SetWholeFormats
    \/ ParseNormSchema
    \/ VerifyNormFrame
    \/ EmitFrame

SpecFmt == Init /\ [][NextFmt]_vars

(***************************************************************************)
(* Specification of one run of csv2pq or pq2csv: the command line is       *)
(* parsed, the files are resolved, the schema is parsed and the pairs of   *)
(* the batch are converted one after the other.                            *)
(***************************************************************************)
Progs == {"csv2pq", "pq2csv"}

\* the i-th input file and the output file the template makes of it
InName(i) ==
    (IF i % 2 = 0 THEN <<"d", "/">> ELSE <<>>) \o <<Lowers[i], ".", "c">>
OutName(i) == <<"t", "/", Lowers[i], ".", "p">>

\* the template '=t/-.c+.p', a template without its '/', and a plain
\* output file
T_template == <<"=", "t", "/", "-", ".", "c", "+", ".", "p">>
T_badtemplate == <<"=", "t">>
T_outfile == <<"o">>

\* the template '-.z', which removes a suffix the input names do not have
T_nocut == <<"-", ".", "z">>

\* runs over a list of input files read from stdin
BatchRuns ==
    {[prog |-> p, opt |-> Options(FALSE, sch, skp, rp, FALSE, <<"-">>, out),
      stdin |-> [j \in 1..n |-> InName(j)],
      fs |-> ({InName(j) : j \in 1..MaxBatch} \ gone) \cup outs] :
        p \in Progs, sch \in BOOLEAN, skp \in BOOLEAN, rp \in BOOLEAN,
        out \in {T_template, <<>>}, n \in 0..MaxBatch,
        gone \in {{}, {InName(1)}},
        outs \in SUBSET {OutName(j) : j \in 1..MaxBatch}}

\* runs on one input file; the output may be the input file itself, by
\* its name or by a template that leaves the name as it is
SingleRuns ==
    {[prog |-> p, opt |-> Options(hdr, sch, skp, rp, vfy, InName(1), out),
      stdin |-> <<>>, fs |-> exist] :
        p \in Progs, hdr \in BOOLEAN, sch \in BOOLEAN, skp \in BOOLEAN,
        rp \in BOOLEAN, vfy \in BOOLEAN,
        out \in {T_outfile, T_badtemplate, <<>>, InName(1), T_nocut},
        exist \in {{InName(1)}, {InName(1), T_outfile}, {}}}

\* the schema files of the runs: a valid one and one with an unknown type
RunSchemaFiles == {<<Line(<<N_a, T_int>>)>>, <<Line(<<N_a, <<"z">>>>)>>}

\* runs whose input is the directory d, named on the command line or on
\* stdin after a file
DirRuns ==
    {[prog |-> p, opt |-> Options(FALSE, FALSE, FALSE, FALSE, FALSE, inf, <<>>),
      stdin |-> IF inf = <<"-">> THEN <<InName(2), <<"d">>>> ELSE <<>>,
      fs |-> {InName(2)}] : p \in Progs, inf \in {<<"d">>, <<"-">>}}

StartRun == Start(BatchRuns \cup SingleRuns \cup DirRuns)
ParseRunSchema ==
    /\ run.at = "files"
    /\ run.opt.schema
    /\ err.cls = "none"
    /\ GetSchema(RunSchemaFiles, {FALSE})

NextRun ==
    \/ StartRun
    \/ GetFiles
    \/ ParseRunSchema
    \/ Prepare
    \/ GetPair
    \/ Convert
    \/ Catch

SpecRun == Init /\ [][NextRun]_vars

\* runs over a list of input files, for the loop of main: without schema,
\* every combination of --skip and --replace, with and without template,
\* any set of outputs existing
LoopRuns ==
    {[prog |-> p, opt |-> Options(FALSE, FALSE, skp, rp, FALSE, <<"-">>, out),
      stdin |-> [j \in 1..n |-> InName(j)],
      fs |-> {InName(j) : j \in 1..MaxLoop} \cup outs] :
        p \in Progs, skp \in BOOLEAN, rp \in BOOLEAN,
        out \in {T_template, <<>>}, n \in 0..MaxLoop,
        outs \in SUBSET {OutName(j) : j \in 1..MaxLoop}}

StartLoop == Start(LoopRuns)

NextLoop ==
    \/ StartLoop
    \/ GetFiles
    \/ Prepare
    \/ GetPair
    \/ Convert
    \/ Catch

\* the program is one sequential process: a step that can be taken is taken
SpecLoop == Init /\ [][NextLoop]_vars /\ WF_vars(NextLoop)

(***************************************************************************)
(* Output templates: config of pq2csv up to get_outfiles, over lists of   *)
(* input names and templates.                                              *)
(***************************************************************************)
\* input names with and without a directory and the suffix '.c'
TmplNames ==
    {<<"a", ".", "c">>, <<"d", "/", "a", ".", "c">>, <<"d", "/", "b">>,
     <<".", "c">>}

TmplLists == UNION {[1..n -> TmplNames] : n \in 0..MaxTmplFiles}

\* templates with each part present or absent, and malformed ones
Templates ==
    {T_template, T_badtemplate,
     <<"=", "t", "/">>, <<"=", "/">>, <<"-", ".", "c">>, <<"+", ".", "p">>,
     <<"-", ".", "c", "+", ".", "p">>, <<"=", "t", "/", "+", ".", "p">>,
     <<"=", "t", "/", "-", ".", "c">>, <<"-">>, <<"+">>,
     <<"-", ".", "c", "+">>, <<"=", "t", "/", "x">>, <<"-", "+", "p">>,
     <<"=", "t", "/", "-", "x", "/", "y">>, <<"+", "a", "-", "b">>,
     <<"-", "a", ".", "c">>}

TemplateRuns ==
    {[prog |-> "pq2csv",
      opt |-> Options(FALSE, FALSE, FALSE, FALSE, FALSE, <<"-">>, t),
      stdin |-> l, fs |-> TmplNames] : l \in TmplLists, t \in Templates}

StartTmpl == Start(TemplateRuns)

NextTmpl ==
    \/ StartTmpl
    \/ GetFiles
    \/ Catch

SpecTmpl == Init /\ [][NextTmpl]_vars

(***************************************************************************)
(* The schema file as the claims read it.                                  *)
(***************************************************************************)
\* the tokens of line k of the schema file
Toks(k) == SplitWS(schfile[k])

\* the numbers of the non-blank lines, in file order
DeclLines ==
    SelectSeq([k \in 1..Len(schfile) |-> k], LAMBDA k : Len(Toks(k)) > 0)

\* name and type of the i-th declared column (i from 1)
DeclName(i) == Toks(DeclLines[i])[1]
DeclHasType(i) == Len(Toks(DeclLines[i])) > 1
DeclType(i) == Toks(DeclLines[i])[2]

\* the phrase NOT NULL, in any letter case, stands in the tokens of line k
\* that follow the type: one token ends with NOT, the next one starts
\* with NULL
HasNotNull(k) ==
    \E j \in 3..(Len(Toks(k)) - 1) :
        /\ Len(Toks(k)[j]) >= 3
        /\ PyUpper(SubSeq(Toks(k)[j], Len(Toks(k)[j]) - 2, Len(Toks(k)[j])))
              = T_NOT
        /\ StartsWith(PyUpper(Toks(k)[j + 1]), T_NULL)

\* the i-th declared column carries no NOT NULL
DeclNullable(i) == ~HasNotNull(DeclLines[i])

\* get_schema has returned / has raised
Returned == pc # "start" /\ err.cls = "none"
Raised == pc # "start" /\ err.cls # "none"

IntDtypes == {"int8", "int16", "int32", "int64"}

\* the resolved type of the i-th declared column, as recorded in _colSpecs
Resolved(i) == Schema.colSpecs[i][3]

\* the positions (from 0) of the declared columns with a companion column
\* <name>_ISNULL among the synthetic columns
WithCompanion ==
    {i \in 0..(Schema.colOrigs - 1) :
        \E j \in (Schema.colOrigs + 1)..Len(Schema.colNames) :
            /\ j - Schema.colOrigs <= Len(Schema.colNVChk)
            /\ Schema.colNVChk[j - Schema.colOrigs] = i
            /\ Schema.colNames[j] = DeclName(i + 1) \o T_ISNULL}

C4_ColumnOrder ==
    Returned =>
        /\ Schema.colOrigs = Len(DeclLines)
        /\ Len(Schema.colNames) = Schema.colOrigs + Len(Schema.colNVChk)
        /\ \A i \in 1..Schema.colOrigs : Schema.colNames[i] = DeclName(i)
        /\ \A j \in 1..Len(Schema.colNVChk) :
              /\ Schema.colNVChk[j] >= 0
              /\ Schema.colNVChk[j] < Schema.colOrigs
              /\ Schema.colNames[Schema.colOrigs + j] =
                    DeclName(Schema.colNVChk[j] + 1) \o T_ISNULL
        /\ \A j \in 1..(Len(Schema.colNVChk) - 1) :
              Schema.colNVChk[j] < Schema.colNVChk[j + 1]

\* a schema with a blank line and two companions
C4_Witness ==
    /\ Returned
    /\ Len(schfile) > Schema.colOrigs
    /\ Len(Schema.colNVChk) >= 1
    /\ Schema.colNVChk[Len(Schema.colNVChk)] = Schema.colOrigs - 1

\* the schema file declares one column, with a type, in non-auto mode
OneColumn ==
    /\ pc # "start" /\ ~doAuto
    /\ Len(schfile) = 1 /\ Len(DeclLines) = 1 /\ DeclHasType(1)

\* a one-digit or two-digit number as written
Num(n) == IF n < 10 THEN <<Digits[n + 1]>>
          ELSE <<Digits[(n \div 10) + 1], Digits[(n % 10) + 1]>>

\* the i-th declared column is declared decimal(p) or decimal(p,0)
DeclDecInt(i, p) ==
    /\ DeclHasType(i)
    /\ PyLower(DeclType(i)) \in
         {T_decimal \o Num(p) \o <<")">>,
          T_decimal \o Num(p) \o <<",", "0", ")">>}

\* decimal(p,sc) as a schema file may give it, in lower case: alone or
\* with the comma that ends the line
DecFloatTexts ==
    [p \in 0..MaxPrec |-> [sc \in 1..MaxScale |->
        {T_decimal \o Num(p) \o <<",">> \o Num(sc) \o <<")">>,
         T_decimal \o Num(p) \o <<",">> \o Num(sc) \o <<")", ",">>}]]

\* the type of the i-th declared column in lower case, <<>> without one
LowerType(i) == IF DeclHasType(i) THEN PyLower(DeclType(i)) ELSE <<>>

\* C5: a column declared decimal(p) or decimal(p,0) is resolved to int8
\* for p in 0..2, int16 for p in 3..4, int32 for p in 5..9, int64 for 10 up
C5_DecimalIntType ==
    \A p \in 0..MaxPrec :
        (OneColumn /\ DeclDecInt(1, p)) =>
            /\ Returned
            /\ Resolved(1) = (IF p <= 2 THEN "int8"
                              ELSE IF p <= 4 THEN "int16"
                              ELSE IF p <= 9 THEN "int32"
                              ELSE "int64")

\* the scales sc for which the lower-case type t reads decimal(p,sc)
ScalesOf(t) ==
    {sc \in 1..MaxScale : \E p \in 0..MaxPrec : t \in DecFloatTexts[p][sc]}

\* the fixed-point format to register for a column of the scales scs
ExpectedFmtOf(name, scs) ==
    IF scs = {} THEN <<>>
    ELSE << <<name, <<".">> \o Num(CHOOSE sc \in scs : TRUE) \o <<"f">> >> >>

\* the fixed-point formats the declared columns 1..i are to register
RECURSIVE ExpectedFPFmt(_)
ExpectedFPFmt(i) ==
    IF i = 0 THEN <<>>
    ELSE ExpectedFPFmt(i - 1) \o ExpectedFmtOf(DeclName(i), ScalesOf(LowerType(i)))

\* the float type a column of lower-case type t and resolved type r is
\* to have when t reads decimal(p,sc)
FloatTypeOK(t, r) ==
    \A p \in 0..MaxPrec, sc \in 1..MaxScale :
        t \in DecFloatTexts[p][sc] =>
            r = (IF p < 7 THEN "float32" ELSE "float64")

\* C6: a column declared decimal(p,s) with s > 0 is resolved to float32
\* when p < 7 and to float64 when p >= 7, and the format '.{s}f' is
\* registered for it and for no other column
C6_DecimalFloatType ==
    (Returned /\ ~doAuto) =>
        /\ \A i \in 1..Len(DeclLines) : FloatTypeOK(LowerType(i), Resolved(i))
        /\ Schema.colFPFmt = ExpectedFPFmt(Len(DeclLines))

\* a schema of two columns, one decimal(p,s) of precision 7 or more and
\* one that is no decimal
C6_Witness ==
    /\ Returned /\ ~doAuto
    /\ Len(DeclLines) = 2
    /\ Len(Schema.colFPFmt) = 1
    /\ \E i \in 1..2 : Resolved(i) = "float64" /\ DeclType(i) # T_double

\* C7: a malformed decimal spec makes get_schema raise ParmError 4 with
\* the column name and the type as written, and registers no fixed-point
\* format for the column
C7_MalformedDecimal ==
    (pc # "start" /\ ~doAuto) =>
        \A k \in 1..Len(schfile) :
            (Len(Toks(k)) > 1 /\ Toks(k)[2] \in MalformedDecTokens) =>
                /\ Raised
                /\ err.cls = "ParmError" /\ err.msgnum = 4
                /\ errLine >= 1 /\ errLine <= k
                /\ errLine = k =>
                      /\ err.args = <<Toks(k)[1], Toks(k)[2]>>
                      /\ err.shown = <<1, 2>>
                      /\ \E i \in 1..Len(DeclLines) :
                            /\ DeclLines[i] = k
                            /\ Schema.colFPFmt = ExpectedFPFmt(i - 1)

\* get_schema raised at a malformed decimal spec on the second line, after
\* a first line that registered a fixed-point format
C7_Witness ==
    /\ Raised /\ ~doAuto
    /\ errLine = 2
    /\ Toks(2)[2] \in MalformedDecTokens
    /\ Len(Schema.colFPFmt) = 1

\* the concrete type the documented vocabulary gives a type name
VocabType(t) ==
    IF t \in {T_int8, T_tinyint} THEN "int8"
    ELSE IF t \in {T_int16, T_short, T_smallint} THEN "int16"
    ELSE IF t \in {T_int32, T_int} THEN "int32"
    ELSE IF t \in {T_int64, T_long, T_bigint} THEN "int64"
    ELSE IF t \in {T_float32, T_float} THEN "float32"
    ELSE IF t \in {T_float64, T_double} THEN "float64"
    ELSE IF t \in {T_char, T_varchar} THEN "bytes_"
    ELSE IF t = T_bool THEN "bool_"
    ELSE "datetime64"

\* C8: every type name of the documented vocabulary, in any letter case,
\* is resolved to its concrete type and never reported as unsupported
C8_VocabularyResolved ==
    (OneColumn /\ DeclType(1) \in CasedVocabTokens) =>
        /\ Returned
        /\ DeclName(1) \in DOMAIN Schema.colTypes
        /\ Schema.colTypes[DeclName(1)] = VocabType(PyLower(DeclType(1)))

\* C9: every type token outside the vocabulary that is no well-formed
\* decimal makes get_schema raise ParmError 4 naming the column and the
\* type as written
C9_UnknownTypeRejected ==
    (OneColumn /\ DeclType(1) \in UnknownTokens \cup CharPrefixTokens) =>
        /\ Raised
        /\ err.cls = "ParmError" /\ err.msgnum = 4
        /\ err.args = <<DeclName(1), DeclType(1)>>
        /\ err.shown = <<1, 2>>

(***************************************************************************)
(* The rows of a conversion as the claims read them.                       *)
(***************************************************************************)
\* read() has returned the record of the row the csv reader gave it last
ReadDone == csv.fetched = "row" /\ readErr.cls = "none"

\* the fields of the record read() returned
RecFields == Split(SubSeq(rec, 1, Len(rec) - 1), Csv2Csv.sepC[1])

\* the positions (from 0) of the null-check list
Checked == {Schema.colNVChk[j] : j \in 1..Len(Schema.colNVChk)}

\* C1: read(), given a row of colOrigs fields, replaces each field of the
\* null-check list that equals the null marker by the null substitute and
\* appends 'true' for it, appends 'false' for each other field of the list
\* and leaves it alone, changes no other field, and returns
\* colOrigs + len(colNVChk) fields
C1_NullSubstitution ==
    (ReadDone /\ Len(row) = Schema.colOrigs) =>
        /\ rec[Len(rec)] = "\n"
        /\ Len(RecFields) = Schema.colOrigs + Len(Schema.colNVChk)
        /\ \A i \in 1..Schema.colOrigs :
              RecFields[i] = (IF (i - 1) \in Checked /\ row[i] = Csv2Csv.nilV
                              THEN Csv2Csv.nanV ELSE row[i])
        /\ \A j \in 1..Len(Schema.colNVChk) :
              RecFields[Schema.colOrigs + j] =
                  (IF row[Schema.colNVChk[j] + 1] = Csv2Csv.nilV
                   THEN T_true ELSE T_false)

\* read() returned a row in which a checked field and an unchecked field
\* both held the null marker, and the substitute differs from the marker
C1_Witness ==
    /\ ReadDone /\ Len(row) = Schema.colOrigs
    /\ Csv2Csv.nanV # Csv2Csv.nilV
    /\ \E i \in 1..Schema.colOrigs :
          (i - 1) \in Checked /\ row[i] = Csv2Csv.nilV
    /\ \E i \in 1..Schema.colOrigs :
          (i - 1) \notin Checked /\ row[i] = Csv2Csv.nilV

\* the field of the j-th column of the null-check list as the csv file
\* had it, as the decoded batch has it, and the decoded companion flag
Original(j) == row[Schema.colNVChk[j] + 1]
Decoded(j) == df[Schema.colNVChk[j] + 1]
Flag(j) == df[Schema.colOrigs + j]

\* a text value and a boolean value of a data frame
StrVal(t) == [t |-> "str", v |-> t]
BoolVal(b) == [t |-> "bool", v |-> b]

\* the round trip of the j-th nullable integral column gave back the
\* text t
CameBack(j, t) ==
    IF Original(j) = Csv2Csv.nilV
    THEN Decoded(j) = StrVal(Csv2Csv.nilV) /\ Flag(j) = BoolVal(TRUE)
    ELSE Decoded(j) = StrVal(t) /\ Flag(j) = BoolVal(FALSE)

CheckedType(j) == Schema.colTypes[Schema.colNames[Schema.colNVChk[j] + 1]]

\* the text f is the text of an integer the type nptype holds
Holds(nptype, pi) == pi.ok /\ InRange(nptype, pi.val)

\* the decimal text of the integer that the text f gives
Canonical(pi) == IF pi.ok THEN PyStr(pi.val) ELSE <<>>

Shown(e) == {e.shown[i] : i \in 1..Len(e.shown)}

\* C10: for a row whose number of fields differs from colOrigs read()
\* raises a ParmError whose message gives the number of rows read before
\* it and the actual and the expected number of columns, and the row is
\* not passed on
C10_RowNumberedError ==
    (csv.fetched = "row" /\ Len(row) # Schema.colOrigs) =>
        /\ readErr.cls = "ParmError"
        /\ rec = <<>> /\ pc = "exit99"
        /\ Len(readErr.args) = 7
        /\ {2, 4, 6} \subseteq Shown(readErr)
        /\ readErr.args[2] = csv.nRead
        /\ readErr.args[4] = Len(row)
        /\ readErr.args[6] = Schema.colOrigs

(***************************************************************************)
(* The verification as the claims read it.                                 *)
(***************************************************************************)
\* the k-th column of the frame is absent from the schema's type map or
\* has another type than the schema gives it
Mismatch(k) ==
    \/ ver.df[k][1] \notin DOMAIN Schema.colTypes
    \/ Schema.colTypes[ver.df[k][1]] #
          (IF ver.df[k][2] = "object" THEN "bytes_" ELSE ver.df[k][2])

\* the numbers of the mismatching columns, in frame order
Mismatches ==
    SelectSeq([k \in 1..Len(ver.df) |-> k], LAMBDA k : Mismatch(k))

\* the names ver_dataframe reported a column complaint for, in order
Reported ==
    SelectSeq([i \in 1..Len(ver.said) |->
                  IF ver.said[i][1] \in {"wrong datatype", "non-schema column"}
                  THEN ver.said[i][2] ELSE <<>>],
              LAMBDA n : n # <<>>)

\* C11: ver_dataframe returns the empty list whenever some column of the
\* data is absent from the type map or of another type than declared; with
\* blab it examines every column and reports every such column first,
\* without blab it stops at the first one
C11_VerRejects ==
    (ver.called /\ Len(Mismatches) > 0) =>
        /\ ver.ret = <<>>
        /\ IF ver.blab
           THEN /\ ver.examined = Len(ver.df)
                /\ Reported = [i \in 1..Len(Mismatches) |->
                                   ver.df[Mismatches[i]][1]]
           ELSE /\ ver.examined = Mismatches[1]
                /\ ver.said = << <<IF ver.df[Mismatches[1]][1] \in DOMAIN Schema.colTypes
                                   THEN "wrong datatype" ELSE "non-schema column",
                                   ver.df[Mismatches[1]][1]>> >>

\* a frame with two mismatching columns, one absent and one of the wrong
\* type, was verified with blab, and a matching column stands before them
C11_Witness ==
    /\ ver.called /\ ver.blab
    /\ Len(Mismatches) = 2
    /\ Mismatches[1] > 1
    /\ \E i \in 1..2 : ver.df[Mismatches[i]][1] \in DOMAIN Schema.colTypes
    /\ \E i \in 1..2 : ver.df[Mismatches[i]][1] \notin DOMAIN Schema.colTypes

\* C12: when every data column is in the schema with a matching type and
\* the number of data columns is that of the typed schema columns,
\* ver_dataframe returns the declared column names in declared order and
\* no companion column
C12_VerReturnsOriginals ==
    (ver.called /\ Len(Mismatches) = 0
        /\ Len(ver.df) = Cardinality(DOMAIN Schema.colTypes)) =>
        /\ Len(ver.ret) = Len(DeclLines)
        /\ \A i \in 1..Len(DeclLines) : ver.ret[i] = DeclName(i)
        /\ pc = "verified"

\* a frame with a companion column was verified with success
C12_Witness ==
    /\ ver.called /\ Len(Mismatches) = 0
    /\ Len(ver.df) = Cardinality(DOMAIN Schema.colTypes)
    /\ Len(Schema.colNVChk) > 0
    /\ Len(ver.ret) = 2

(***************************************************************************)
(* Claims about normalize.                                                 *)
(***************************************************************************)
\* the steps normalize took on the column named cname
StepsOf(cname) == SelectSeq(norm.log, LAMBDA e : e[2] = cname)

\* the steps of one kind
StepsOfKind(cname, kind) ==
    SelectSeq(norm.log, LAMBDA e : e[2] = cname /\ e[1] = kind)

\* column i of the frame went through exactly one step, a rendering
RenderedOnce(i) ==
    /\ Len(StepsOf(ver.df[i][1])) = 1
    /\ StepsOf(ver.df[i][1])[1][1] # "revert"

\* the format a rendering step used
StepFmt(e) ==
    IF e[1] = "f32" THEN Schema.f32fmt.text
    ELSE IF e[1] = "f64" THEN Schema.f64fmt.text
    ELSE Schema.colFPFmt[CHOOSE j \in 1..Len(Schema.colFPFmt) :
                             Schema.colFPFmt[j][1] = e[2]][2]

\* out is full cut after the part p, which is followed by nothing but
\* zero digits; a digit is kept after the point
TrimAt(out, full, p) ==
    /\ Len(p) > 0
    /\ \A i \in (Len(p) + 1)..Len(full) : full[i] = "0"
    /\ \/ p[Len(p)] \notin {"0", "."} /\ out = p
       \/ p[Len(p)] = "." /\ out = p \o <<"0">>

TrimOf(out, full) ==
    \E k \in 0..Len(full) : TrimAt(out, full, SubSeq(full, 1, Len(full) - k))

\* the text the claim expects for the value x under the format fmt
RenderedAs(out, x, fmt) ==
    /\ out.t = "str"
    /\ IF IsZero(x) THEN out.v = <<"0", ".", "0">>
       ELSE TrimOf(out.v, PyFormatF(x, FmtScale(fmt)))

\* C13: a floating value rendered by _format under a format '.<s>f' is
\* its '.<s>f' text without its trailing zero digits, one digit kept
\* after the point, and a value equal to zero is rendered "0.0"
C13_FixedPointRendering ==
    norm.called =>
        \A i \in 1..Len(norm.vals) :
            (norm.vals[i].t = "float" /\ RenderedOnce(i)) =>
                RenderedAs(norm.out[i], norm.vals[i],
                           StepFmt(StepsOf(ver.df[i][1])[1]))

\* a column with a registered format held 1.0, which was rendered "1.0"
C13_Witness ==
    /\ norm.called
    /\ \E i \in 1..Len(norm.vals) :
         /\ RenderedOnce(i)
         /\ StepsOf(ver.df[i][1])[1][1] = "fixed"
         /\ norm.vals[i] = Float(FALSE, 1, <<>>)
         /\ norm.out[i] = [t |-> "str", v |-> <<"1", ".", "0">>]

\* the column named cname went through a step of the given kind
Took(cname, kind) == Len(StepsOfKind(cname, kind)) > 0

\* the schema gives the column the floating type nptype and registers no
\* fixed-point format for it
PlainFloat(cname, nptype) ==
    /\ cname \in DOMAIN Schema.colTypes
    /\ Schema.colTypes[cname] = nptype
    /\ \A j \in 1..Len(Schema.colFPFmt) : Schema.colFPFmt[j][1] # cname

\* C14: the run-wide format of a width is applied to exactly the columns
\* of that width without a registered format, no column is rendered by
\* the fixed-point step and by a run-wide step, and no column whose nulls
\* were reverted is rendered at all
C14_GlobalFormatScope ==
    norm.called =>
        \A i \in 1..Len(ver.df) :
            /\ Took(ver.df[i][1], "f32")
                   <=> (Schema.f32fmt.given /\ PlainFloat(ver.df[i][1], "float32"))
            /\ Took(ver.df[i][1], "f64")
                   <=> (Schema.f64fmt.given /\ PlainFloat(ver.df[i][1], "float64"))
            /\ ~(Took(ver.df[i][1], "fixed")
                   /\ (Took(ver.df[i][1], "f32") \/ Took(ver.df[i][1], "f64")))
            /\ Took(ver.df[i][1], "revert") =>
                   ~(Took(ver.df[i][1], "fixed") \/ Took(ver.df[i][1], "f32")
                       \/ Took(ver.df[i][1], "f64"))

\* C20: after get_schema returned, no name occurs twice in colNames
C20_UniqueNames ==
    Returned =>
        \A i, j \in 1..Len(Schema.colNames) :
            i # j => Schema.colNames[i] # Schema.colNames[j]

(***************************************************************************)
(* Claims about the runs.                                                  *)
(***************************************************************************)
\* the output of pair j of the batch existed when the program was started
Existed(j) == run.batch[j][2] \in run.fs0

\* pair j has the last output of the batch that existed
LastExisting(j) ==
    Existed(j) /\ \A k \in (j + 1)..Len(run.batch) : ~Existed(k)

\* the outputs of the batch that existed, the last one left out
EarlierExisting ==
    {run.batch[j][2] : j \in {k \in 1..Len(run.batch) :
                                 Existed(k) /\ ~LastExisting(k)}}

\* C15: with --skip and --replace get_filepair skips the pairs whose
\* output exists, only the last existing output of the batch is removed
\* and its pair returned, and no other existing output is removed
C15_SkipThenReplace ==
    (run.opt.skp /\ run.opt.rep) =>
        /\ \A k \in 1..Len(run.removed) :
              \E j \in 1..Len(run.batch) :
                 LastExisting(j) /\ run.removed[k] = run.batch[j][2]
        /\ \A k \in 1..Len(run.skipped) : run.skipped[k] \in EarlierExisting
        /\ (run.at = "exit" /\ run.exit = 0) =>
              /\ Range(run.skipped) = EarlierExisting
              /\ \A j \in 1..Len(run.batch) :
                    LastExisting(j) =>
                       /\ run.removed = <<run.batch[j][2]>>
                       /\ run.batch[j] \in Range(run.returned)

\* a csv2pq run with --skip and --schema over the inputs listed on stdin,
\* all of them files, and the template; the schema file was accepted
SkipBatchRun ==
    /\ run.prog = "csv2pq"
    /\ run.opt = Options(FALSE, TRUE, TRUE, FALSE, FALSE, <<"-">>, T_template)
    /\ Range(run.stdin) \subseteq run.fs0
    /\ pc = "config"

\* C16: such a run ends with status 0 and every templated output exists
\* afterwards, none of the outputs that existed having been removed
C16_SkipBatchConverts ==
    (run.at = "exit" /\ SkipBatchRun) =>
        /\ run.exit = 0
        /\ \A j \in 1..Len(run.stdin) : OutName(j) \in fs
        /\ run.removed = <<>>

\* a csv2pq run with --replace, --verify and --schema on one input file,
\* which exists, and one output path
ReplaceVerifyRun ==
    /\ run.prog = "csv2pq"
    /\ run.opt = Options(FALSE, TRUE, FALSE, TRUE, TRUE, InName(1), T_outfile)
    /\ InName(1) \in run.fs0

\* C17: such a run ends with status 0 and the output file exists
\* afterwards, whether or not it existed before
C17_ReplaceVerifyConverts ==
    (run.at = "exit" /\ ReplaceVerifyRun) =>
        /\ run.exit = 0
        /\ T_outfile \in fs

\* C18: a run that ends with a ParmError or a FatalError exits with the
\* non-zero status of that class, and the two classes have different ones
C18_DistinctExitCodes ==
    (run.at = "exit" /\ err.cls \in {"ParmError", "FatalError"}) =>
        /\ run.exit # 0
        /\ run.exit = ExitStatus(err.cls)
        /\ ExitStatus("ParmError") # ExitStatus("FatalError")

\* C19: whatever fails in a csv2pq run once the command line is parsed
\* is a ParmError or a FatalError, which main catches
C19_OnlyKnownErrors ==
    (run.prog = "csv2pq" /\ err.cls # "none") =>
        /\ err.cls \in {"ParmError", "FatalError"}
        /\ run.at = "exit" => run.caught

(***************************************************************************)
(* Claims about nullability.                                               *)
(***************************************************************************)
\* the declared columns with a type whose line carries NOT NULL, in file
\* order
DeclNotNull ==
    SelectSeq([i \in 1..Len(DeclLines) |-> i],
              LAMBDA i : DeclHasType(i) /\ ~DeclNullable(i))

\* C21: the columns get_schema records as NOT NULL are those with the
\* phrase NOT NULL, in any letter case, after their type; the name and the
\* type are not looked at, and no such column has a companion column
C21_NotNullPhrase ==
    (Returned /\ ~doAuto) =>
        /\ Schema.colNotNull
             = [j \in 1..Len(DeclNotNull) |-> DeclName(DeclNotNull[j])]
        /\ \A i \in WithCompanion : DeclNullable(i + 1)

\* the integer column of 'a int x not null' is recorded as NOT NULL and
\* has no companion column
C21_Witness ==
    /\ Returned /\ ~doAuto
    /\ schfile = <<Line(<<N_a, T_int, <<"x">>, PyLower(T_NOT),
                          PyLower(T_NULL)>>)>>
    /\ Schema.colNotNull = <<N_a>>
    /\ WithCompanion = {}

(***************************************************************************)
(* Claims about the schema during conversion.                              *)
(***************************************************************************)
\* the four public attributes of the schema
Public(s) == <<s.colNames, s.colNVChk, s.colTypes, s.colOrigs>>

\* config is over: get_schema has returned if a schema file was given
SchemaLoaded == pc # "start"

PlainRun ==
    run.at \in {"loop", "exit"} /\ Len(run.batch) > 0
        /\ ~run.opt.skp /\ ~run.opt.rep

\* get_filepair raised 'Output file ... already exists'
ExistsError ==
    /\ err.cls = "ParmError" /\ err.msgnum = 6
    /\ Len(err.args) = 3 /\ err.args[3] = "already exists"

\* C23: without --skip and --replace get_filepair returns the pairs in
\* order as long as their output does not exist, raises ParmError 6
\* 'Output file ... already exists' at the first pair whose output exists,
\* and removes no file
C23_ExistingOutputRejected ==
    PlainRun =>
        /\ run.removed = <<>> /\ run.skipped = <<>>
        /\ run.fs0 \subseteq fs
        /\ Len(run.returned) <= Len(run.batch)
        /\ run.returned = SubSeq(run.batch, 1, Len(run.returned))
        /\ \A j \in 1..Len(run.returned) : ~Existed(j)
        /\ ExistsError =>
              /\ Len(run.returned) < Len(run.batch)
              /\ Existed(Len(run.returned) + 1)
              /\ err.args = <<"Output file",
                              run.batch[Len(run.returned) + 1][2],
                              "already exists">>
        /\ (run.at = "exit" /\ err.cls = "none") =>
              Len(run.returned) = Len(run.batch)

\* the first pair was returned and converted, the output of the second
\* one exists and get_filepair raised
C23_Witness ==
    /\ PlainRun
    /\ ExistsError
    /\ Len(run.returned) = 1
    /\ run.batch[1][2] \in fs
    /\ run.removed = <<>>

(***************************************************************************)
(* Claims about output templates.                                          *)
(***************************************************************************)
\* the template t read as '[=dir/][-sfx][+sfx]': its first i characters
\* are the '=dir/' part, the characters up to j the '-sfx' part and the
\* rest the '+sfx' part.  The directory runs to the last '/', the removed
\* suffix to the first '+'; bare: a '-' without suffix counts as a part
\* when a '+sfx' part follows
PartsAt(t, i, j, bare) ==
    /\ \/ i = 0 /\ t[1] # "="
       \/ /\ i >= 2 /\ t[1] = "=" /\ t[i] = "/"
          /\ \A k \in (i + 1)..Len(t) : t[k] # "/"
    /\ \/ j = i
       \/ /\ t[i + 1] = "-"
          /\ j >= i + 2 \/ (bare /\ j < Len(t))
          /\ \A k \in (i + 1)..j : t[k] # "+"
    /\ \/ j = Len(t)
       \/ t[j + 1] = "+" /\ Len(t) >= j + 2

IsTemplate(t, bare) ==
    \E i \in 0..Len(t), j \in 0..Len(t) : i <= j /\ PartsAt(t, i, j, bare)

\* the name after its last '/'
BaseName(name) ==
    IF \E k \in 1..Len(name) : name[k] = "/"
    THEN SubSeq(name, 1 + CHOOSE k \in 1..Len(name) :
                            name[k] = "/"
                            /\ \A m \in (k + 1)..Len(name) : name[m] # "/",
                Len(name))
    ELSE name

\* out is the name the parts of t at i and j make of the input name
NamedBy(out, name, t, i, j) ==
    \E stem \in {SubSeq(out, 1, k) : k \in 0..Len(out)} :
        /\ out = stem \o SubSeq(t, j + 2, Len(t))
        /\ \/ stem \o SubSeq(t, i + 2, j)
                = IF i = 0 THEN name ELSE SubSeq(t, 2, i) \o BaseName(name)
           \/ /\ ~EndsWith(stem, SubSeq(t, i + 2, j))
              /\ stem = IF i = 0 THEN name
                        ELSE SubSeq(t, 2, i) \o BaseName(name)

\* get_outfiles was called with a template
Templated ==
    /\ run.at \in {"files", "exit"}
    /\ Len(run.opt.outfile) > 0
    /\ run.opt.outfile[1] \in {"+", "-", "="}

Consumed == Len(run.batch) - Len(io.fIN)

\* the returned pairs are pairs of the batch, in the order of the batch and
\* each one returned once: f gives their positions
InBatchOrder(f) ==
    /\ \A k \in DOMAIN f : f[k] <= Consumed /\ run.returned[k] = run.batch[f[k]]
    /\ \A k \in DOMAIN f : \A m \in DOMAIN f : k < m => f[k] < f[m]

\* what get_filepair has returned so far and what it would return now
PairsInOrder ==
    (run.at \in {"loop", "exit"} /\ Len(run.batch) > 0) =>
        /\ Len(io.fIN) <= Len(run.batch)
        /\ io.fIN = [k \in 1..Len(io.fIN) |-> run.batch[Consumed + k][1]]
        /\ \E f \in [1..Len(run.returned) -> 1..Len(run.batch)] :
              InBatchOrder(f)
        /\ Len(io.fIN) = 0 =>
              \A rmfails \in BOOLEAN :
                  /\ ~GetFilepair(CallState(io, fs), rmfails).got
                  /\ GetFilepair(CallState(io, fs), rmfails).err = NoErr
                  /\ GetFilepair(CallState(io, fs), rmfails).io = io

\* C25: get_filepair hands out the input files in order, each at most once
\* and with the output name of the same position, returns [None, None]
\* once the inputs are used up, and the loop of main ends
C25_PairsConsumed == []PairsInOrder /\ <>(run.at = "exit")

\* a batch of files was converted pair by pair and main has ended
C25_Witness ==
    /\ run.at = "exit" /\ run.exit = 0
    /\ Len(run.batch) = MaxLoop
    /\ run.returned = run.batch
    /\ run.batch[2][2] = OutName(2)
    /\ Len(io.fIN) = 0

(***************************************************************************)
(* Claims about the run-wide formats.                                      *)
(***************************************************************************)
\* a digit follows a decimal point in the text t
DigitAfterPoint(t) ==
    \E k \in 1..(Len(t) - 1) : t[k] = "." /\ IsDigit(t[k + 1])

\* the text of a number in fixed notation without the zero digits that
\* end its decimals and without a point that ends it
PlainNumber(t) ==
    IF Contains(t, <<".">>)
    THEN IF Len(RStripZeros(t)) > 0 /\ RStripZeros(t)[Len(RStripZeros(t))] = "."
         THEN SubSeq(t, 1, Len(RStripZeros(t)) - 1)
         ELSE RStripZeros(t)
    ELSE t

\* column i of the frame was rendered by a run-wide format, and only so
RenderedGlobally(i) ==
    /\ RenderedOnce(i)
    /\ StepsOf(ver.df[i][1])[1][1] \in {"f32", "f64"}

\* C26: under every run-wide format that config accepts, the text _format
\* makes of a value that is not zero has a digit after a decimal point and
\* denotes the number its untrimmed text denotes
C26_TrimKeepsNumber ==
    norm.called =>
        \A i \in 1..Len(norm.vals) :
            (RenderedGlobally(i) /\ norm.vals[i].t = "float"
                /\ ~IsZero(norm.vals[i])) =>
                /\ norm.out[i].t = "str"
                /\ DigitAfterPoint(norm.out[i].v)
                /\ PlainNumber(norm.out[i].v)
                     = PlainNumber(PyFormatF(norm.vals[i],
                            FmtScale(StepFmt(StepsOf(ver.df[i][1])[1]))))

(***************************************************************************)
(* Claims about the result of ver_dataframe.                               *)
(***************************************************************************)
\* every column of the frame is declared with the type it has, and the
\* frame has as many columns as the schema has typed names
Verified(frame) ==
    /\ \A k \in 1..Len(frame) :
          /\ frame[k][1] \in DOMAIN Schema.colTypes
          /\ Schema.colTypes[frame[k][1]] = ObservedType(frame[k][2])
    /\ Len(frame) = DictLen(Schema.colTypes)

\* C27: for the schema get_schema has left, ver_dataframe returns a list
\* that is not empty exactly for the frames that pass the verification, a
\* frame without columns under a schema without columns included, so that
\* convert raises 'Schema verification failed' for no frame that passed
C27_NonEmptyIffVerified ==
    (pc = "config" /\ err.cls = "none") =>
        \A frame \in Frames \cup {<<>>}, blab \in BOOLEAN :
            Len(VerDataframe(Schema, frame, blab).ret) > 0 <=> Verified(frame)

(***************************************************************************)
(* Claims about the files get_filepair removes.                            *)
(***************************************************************************)
\* the input files of the run
RunInputs == {run.batch[j][1] : j \in 1..Len(run.batch)}

\* C28: get_filepair removes no input file of the run, whatever the output
\* specification and the combination of --skip and --replace
C28_InputsKept ==
    \A k \in 1..Len(run.removed) : run.removed[k] \notin RunInputs

(***************************************************************************)
(* Claims about a second call of get_schema.                               *)
(***************************************************************************)
\* the attributes a call of get_schema builds: the column names, the
\* columns checked for nulls, the types, the number of declared columns
\* and the lists of the fixed-point and the floating columns
Built(s) ==
    <<s.colNames, s.colNVChk, s.colTypes, s.colOrigs, s.colFPFmt, s.colFP32,
      s.colFP64>>

\* C29: a second call of get_schema on the same schema file leaves
\* colNames, colNVChk, colTypes, colOrigs and the lists of the fixed-point
\* and the floating columns as the first call left them
C29_SecondCallRebuilds ==
    [][(pc = "config" /\ pc' = "again") => Built(Schema') = Built(Schema)]_vars

(***************************************************************************)
(* Claims about input files that cannot be used.                           *)
(***************************************************************************)
\* the input names of the run: the one of the command line, or those read
\* from stdin
GivenInputs ==
    IF run.opt.infile = <<"-">> THEN run.stdin
    ELSE IF Len(run.opt.infile) > 0 THEN <<run.opt.infile>>
    ELSE <<>>

\* the k-th input name is the first one that is not a regular file
FirstUnusable(k) ==
    /\ GivenInputs[k] \notin run.fs0
    /\ \A j \in 1..(k - 1) : GivenInputs[j] \in run.fs0

\* C30: an input name that does not exist or is not a regular file makes
\* get_infiles raise ParmError 6, 'Input file ... not found' or
\* '... is not a file', for a name of the command line and for a name read
\* from stdin alike
C30_UnusableInputIsParmError ==
    run.at = "files" =>
        \A k \in 1..Len(GivenInputs) :
            FirstUnusable(k) =>
                /\ err.cls = "ParmError"
                /\ err.msgnum = 6
                /\ err.args = <<"Input file", GivenInputs[k],
                                IF IsDir(run.fs0, GivenInputs[k])
                                THEN "is not a file" ELSE "not found">>
====
